---- MODULE Spec2Model ----
(***************************************************************************)
(* A model of the story pipeline: the Generation Orchestrator              *)
(* (src/llm_client.py, LLMManager), the Continuity Memory Store            *)
(* (src/memory_manager.py, MemoryManager) and the Scene Generator          *)
(* (src/generate_scene.py, SceneGenerator).                                *)
(*                                                                         *)
(* The backend (Ollama) and the vector store (ChromaDB) are the            *)
(* environment: every call to them draws its outcome from a small set.     *)
(***************************************************************************)
EXTENDS Integers, Sequences, FiniteSets, TLC

None == "None"

\* ------------------------------------------------------------------ bounds

\* advanced.max_retries is drawn from 0..MaxRetries
MaxRetries == 2
\* a role's 'alternatives' list has at most MaxAlts models
MaxAlts == 2

\* ------------------------------------------------------------ python values

\* The strings a backend call can return: empty, whitespace-only, plain text,
\* and text with surrounding whitespace.
BackendTexts == {"", "  ", "T1", " T2 "}

\* str.strip() on the strings of the model
Strip(s) ==
    CASE s = "  " -> ""
      [] s = " T2 " -> "T2"
      [] OTHER -> s

\* len() on the strings of the model
StrLen(s) ==
    CASE s = "" -> 0
      [] s = "  " -> 2
      [] s = "T1" -> 2
      [] s = "T2" -> 2
      [] s = " T2 " -> 4
      [] s = "bio" -> 120
      [] s = "epic" -> 501
      [] OTHER -> 1

\* Python truthiness of an Optional[str]
Truthy(s) == s # None /\ s # ""

\* What one call of OllamaClient.generate does: it raises (timeout, connection
\* error, non-success status) or returns the response text.
BackendOutcomes ==
    {[kind |-> "raise", text |-> None]}
        \cup {[kind |-> "text", text |-> t] : t \in BackendTexts}

\* last_outcome before any backend call was made
NoOutcome == [kind |-> "none", text |-> None]

\* A backend call that yielded no usable text: it raised, or the text holds no
\* non-whitespace character.
Blank(out) == out.kind = "raise" \/ Strip(out.text) = ""

\* ------------------------------------------------------------ configuration

\* A role's model configuration: 'primary' (or 'model'), optional 'fallback',
\* optional 'alternatives'.
AltLists == {SubSeq(<<"alt1", "alt2", "alt3", "alt4">>, 1, n) : n \in 0..MaxAlts}

ProseCfgs ==
    {[primary |-> p, model |-> "base", fallback |-> f, alternatives |-> a] :
        p \in {"main", None}, f \in {"backup", None}, a \in AltLists}

RefinementCfgs ==
    {[primary |-> "refiner", model |-> None, fallback |-> None, alternatives |-> <<>>],
     [primary |-> "refiner", model |-> None, fallback |-> "backup", alternatives |-> <<"alt1">>]}

\* config['models']: 'prose' is always configured, 'refinement' may be
ModelsCfgs ==
    {[prose |-> pc] : pc \in ProseCfgs}
        \cup {[prose |-> pc, refinement |-> rc] : pc \in ProseCfgs, rc \in RefinementCfgs}

\* the role keys the callers of generate_with_retry pass
RoleKeys == {"prose", "refinement", "review"}

VARIABLES
    models_cfg,     \* config['models']
    max_retries,    \* LLMManager.max_retries
    llm_pc,         \* "idle" | "trying" | "returned" | "raised"
    llm_key,        \* model_config_key of the call in progress
    chain_pos,      \* which model of the chain _try_generate is running on
    attempt,        \* the loop variable of _try_generate
    llm_result,     \* the value generate_with_retry returned
    calls,          \* every backend call of this generate_with_retry, in order
    last_outcome,   \* what the latest backend call did
    slept,          \* whether time.sleep(retry_delay) followed the latest call
    first_ok,       \* the first backend text with a non-whitespace character
    late_calls      \* backend calls made after first_ok was set

llmVars == <<models_cfg, max_retries, llm_pc, llm_key, chain_pos, attempt,
             llm_result, calls, last_outcome, slept, first_ok, late_calls>>

\* ---------------------------------------------------------- LLMManager

\* an unknown key gets the refinement role's configuration when there is one
FirstConfigured(key) ==
    IF key \in DOMAIN models_cfg THEN models_cfg[key]
    ELSE IF "refinement" \in DOMAIN models_cfg THEN models_cfg["refinement"]
    ELSE models_cfg["prose"]

\* LLMManager._get_model_config
get_model_config(key) ==
    IF key \in DOMAIN models_cfg THEN models_cfg[key] ELSE models_cfg["prose"]

\* The models generate_with_retry hands to _try_generate, in the order it does:
\* primary (or 'model'), then the fallback if one is set, then the alternatives.
ChainFallbackLast(model_cfg) ==
    <<(IF Truthy(model_cfg.primary) THEN model_cfg.primary ELSE model_cfg.model)>>
        \o model_cfg.alternatives
        \o (IF Truthy(model_cfg.fallback) THEN <<model_cfg.fallback>> ELSE <<>>)

Chain(model_cfg) ==
    <<(IF Truthy(model_cfg.primary) THEN model_cfg.primary ELSE model_cfg.model)>>
        \o (IF Truthy(model_cfg.fallback) THEN <<model_cfg.fallback>> ELSE <<>>)
        \o model_cfg.alternatives

\* _try_generate's test of a returned text: `result and len(result.strip()) > 0`
IsSuccessNoStrip(out) ==
    out.kind = "text" /\ Truthy(out.text)

IsSuccess(out) ==
    out.kind = "text" /\ Truthy(out.text) /\ StrLen(Strip(out.text)) > 0

\* what _try_generate returns for a successful attempt: the text as received
ReturnedTextStripped(out) == Strip(out.text)

ReturnedText(out) == out.text

\* time.sleep(retry_delay) runs only in the except branch, before a next attempt
SleepsAfter(out, att) == out.kind = "raise" /\ att < max_retries - 1

\* Where control goes after a failed attempt: the next iteration of
\* _try_generate's loop, else the next model of the chain, else the end of
\* generate_with_retry ("All model attempts failed", return None).
RetriesOffByOne(att) == att < max_retries

MoreRetries(att) == att + 1 < max_retries

\* an exception of the backend is caught by `except Exception` in _try_generate
PropagatesOnLastAttempt(out, att) == out.kind = "raise" /\ att + 1 >= max_retries

Propagates(out, att) == FALSE

\* generate_with_retry is called with a role key
GenerateWithRetry(key) ==
    /\ llm_pc = "idle"
    /\ llm_key' = key
    /\ calls' = <<>>
    /\ last_outcome' = NoOutcome
    /\ slept' = FALSE
    /\ first_ok' = None
    /\ late_calls' = 0
    /\ chain_pos' = 1
    /\ attempt' = 0
    /\ IF max_retries = 0
         THEN \* range(0) is empty: every _try_generate returns None at once
              /\ llm_pc' = "returned"
              /\ llm_result' = None
         ELSE /\ llm_pc' = "trying"
              /\ llm_result' = None
    /\ UNCHANGED <<models_cfg, max_retries>>

\* one iteration of _try_generate's loop: one backend call and what follows it
TryGenerate ==
    /\ llm_pc = "trying"
    /\ \E out \in BackendOutcomes :
        LET chain == Chain(get_model_config(llm_key))
            model == chain[chain_pos]
        IN  /\ calls' = Append(calls, [pos |-> chain_pos, model |-> model,
                                        attempt |-> attempt, failed |-> Blank(out)])
            /\ last_outcome' = out
            /\ slept' = SleepsAfter(out, attempt)
            /\ late_calls' = IF first_ok # None THEN late_calls + 1 ELSE late_calls
            /\ first_ok' = IF first_ok = None /\ ~Blank(out) THEN out.text ELSE first_ok
            /\ IF Propagates(out, attempt)
                 THEN /\ llm_pc' = "raised"
                      /\ llm_result' = None
                      /\ UNCHANGED <<chain_pos, attempt>>
                 ELSE IF IsSuccess(out)
                 THEN /\ llm_pc' = "returned"
                      /\ llm_result' = ReturnedText(out)
                      /\ UNCHANGED <<chain_pos, attempt>>
                 ELSE IF MoreRetries(attempt)
                 THEN /\ attempt' = attempt + 1
                      /\ UNCHANGED <<llm_pc, llm_result, chain_pos>>
                 ELSE IF chain_pos < Len(chain)
                 THEN /\ chain_pos' = chain_pos + 1
                      /\ attempt' = 0
                      /\ UNCHANGED <<llm_pc, llm_result>>
                 ELSE /\ llm_pc' = "returned"
                      /\ llm_result' = None
                      /\ UNCHANGED <<chain_pos, attempt>>
    /\ UNCHANGED <<models_cfg, max_retries, llm_key>>

\* the caller takes the result; the call's locals are gone and the manager is
\* ready for the next call
LLMReturn ==
    /\ llm_pc \in {"returned", "raised"}
    /\ llm_pc' = "idle"
    /\ llm_key' = None
    /\ chain_pos' = 1
    /\ attempt' = 0
    /\ llm_result' = None
    /\ calls' = <<>>
    /\ last_outcome' = NoOutcome
    /\ slept' = FALSE
    /\ first_ok' = None
    /\ late_calls' = 0
    /\ UNCHANGED <<models_cfg, max_retries>>

LLMInit ==
    /\ models_cfg \in ModelsCfgs
    /\ max_retries \in 0..MaxRetries
    /\ llm_pc = "idle"
    /\ llm_key = None
    /\ chain_pos = 1
    /\ attempt = 0
    /\ llm_result = None
    /\ calls = <<>>
    /\ last_outcome = NoOutcome
    /\ slept = FALSE
    /\ first_ok = None
    /\ late_calls = 0

LLMCall == \E key \in RoleKeys : GenerateWithRetry(key)

\* -------------------------------------------------------- MemoryManager

\* the clock runs through the seconds 0..MaxClock
MaxClock == 1
\* the collection holds at most MaxStore entries
MaxStore == 2
\* vector_db.retrieval.top_k and query's top_k are drawn from 1..MaxTopK
MaxTopK == 2

\* scene_outline[:500] and result['text'][:500]
OutlineLimit == 500
ContextLimit == 500

Min(a, b) == IF a <= b THEN a ELSE b

\* s[:n]: the first n characters of s, all of s when it is shorter
Slice(s, n) == [of |-> s, len |-> Min(StrLen(s), n)]

\* the entry types the add_* operations use
EntryTypes ==
    {"story_bible", "world", "magic_system", "character", "scene_summary", "continuity"}

\* the entry types add_entry is called with in the memory specification
AddedTypes == {"character", "story_bible", "magic_system"}

\* the texts stored in the model: one shorter and one longer than 500 characters
MemTexts == {"bio", "epic"}

\* hashlib.md5(text.encode()).hexdigest(), as its first 8 characters and the rest
hash_text(text) ==
    CASE text = "bio" -> <<"9f3a01c2", "r1">>
      [] text = "epic" -> <<"c07e55d1", "r2">>
      [] text = "T1" -> <<"11aa22bb", "r4">>
      [] text = " T2 " -> <<"33cc44dd", "r5">>
      [] OTHER -> <<"00000000", "r0">>

\* python dicts are functions from keys to values
EmptyDict == [k \in {} |-> None]

DictSet(d, k, v) == [x \in DOMAIN d \cup {k} |-> IF x = k THEN v ELSE d[x]]

\* the metadata argument of add_entry: None, or a dict of the caller
CallerMetas ==
    {[some |-> FALSE, dict |-> EmptyDict],
     [some |-> TRUE, dict |-> EmptyDict],
     [some |-> TRUE, dict |-> [k \in {"book"} |-> "novel"]],
     [some |-> TRUE, dict |-> [k \in {"type", "book"} |->
                                 IF k = "type" THEN "story_bible" ELSE "novel"]]}

\* the entry_types lists passed to query
TypeLists ==
    {<<>>, <<"character">>, <<"story_bible">>,
     <<"character", "world", "scene_summary", "continuity">>}

VARIABLES
    db_type,        \* vector_db.type: "chromadb" | "lancedb"
    retrieval_top_k,\* vector_db.retrieval.top_k
    now,            \* datetime.now(), in seconds
    store,          \* the collection: id -> [text, meta, etype]; etype is the
                    \* entry_type argument of the add_entry call that wrote it
    last_add,       \* the latest add_entry call: its id and how it ended
    query_args,     \* the latest query call: entry_types, top_k, backend outcome
    query_result,   \* what the latest query returned
    context,        \* what the latest get_context_for_scene returned
    mem_op          \* the memory operation that just ran, "idle" between operations

memVars == <<db_type, retrieval_top_k, now, store, last_add, query_args,
             query_result, context, mem_op>>

NoAdd == [called |-> FALSE, id |-> <<>>, text |-> None, etype |-> None, raised |-> FALSE]
NoQuery == [entry_types |-> <<>>, top_k |-> 0, backend |-> None, raised |-> FALSE]

Range(f) == {f[x] : x \in DOMAIN f}

\* MemoryManager._generate_id: f"{entry_type}_{timestamp}_{hash_str[:8]}" with
\* the timestamp to the second
generate_id(text, entry_type, ts) == <<entry_type, ts, hash_text(text)[1]>>

\* add_entry's standard metadata: `if not metadata: metadata = {}` and then
\* metadata['type'], metadata['timestamp'], metadata['text_hash'] are set
StandardMetadataKeepType(metadata, entry_type, text, ts) ==
    LET d0 == IF metadata.some /\ DOMAIN metadata.dict # {} THEN metadata.dict ELSE EmptyDict
        d1 == IF "type" \in DOMAIN d0 THEN d0 ELSE DictSet(d0, "type", entry_type)
    IN  DictSet(DictSet(d1, "timestamp", ts), "text_hash", hash_text(text))

StandardMetadata(metadata, entry_type, text, ts) ==
    LET d0 == IF metadata.some /\ DOMAIN metadata.dict # {} THEN metadata.dict ELSE EmptyDict
    IN  DictSet(DictSet(DictSet(d0, "type", entry_type), "timestamp", ts),
                "text_hash", hash_text(text))

\* collection.add(ids, documents, metadatas) when it does not raise: a new id is
\* inserted, an id already present is left as it is
db_add(st, id, entry) ==
    IF id \in DOMAIN st THEN st
    ELSE [x \in DOMAIN st \cup {id} |-> IF x = id THEN entry ELSE st[x]]

\* collection.update(ids, documents, metadatas) when it does not raise: an id
\* present gets the new document and the new metadata (set in place of the old
\* metadata, or merged into it, as the library does); an id absent is ignored
db_update(st, id, entry, mode) ==
    IF id \notin DOMAIN st THEN st
    ELSE LET old == st[id].meta
             merged == [k \in DOMAIN old \cup DOMAIN entry.meta |->
                          IF k \in DOMAIN entry.meta THEN entry.meta[k] ELSE old[k]]
             new == [entry EXCEPT !.meta = IF mode = "merge" THEN merged ELSE entry.meta]
         IN  [st EXCEPT ![id] = new]

\* what the store calls of one _add_chromadb do: add raises or not; update
\* raises, replaces or merges
AddOutcomes == {"ok", "raise"}
UpdateOutcomes == {"replace", "merge", "raise"}

\* MemoryManager._add_chromadb: add; when add raises, update; when update raises
\* too, the error is logged
add_chromadb(st, id, entry, addOut, updOut) ==
    IF addOut = "ok" THEN db_add(st, id, entry)
    ELSE IF updOut # "raise" THEN db_update(st, id, entry, updOut)
    ELSE st

\* MemoryManager._add_lancedb: pass
add_lancedb(st, id, entry) == st

\* whether an exception of the store leaves add_entry: both handlers of
\* _add_chromadb log and go on
AddRaises(addOut, updOut) == FALSE

\* _query_chromadb's filter: None for no types, {"type": t} for one,
\* {"type": {"$in": types}} for several
WhereFilterFirstOnly(entry_types) ==
    IF Len(entry_types) = 0 THEN [op |-> "none", types |-> {}]
    ELSE [op |-> "eq", types |-> {entry_types[1]}]

WhereFilterDropped(entry_types) ==
    IF Len(entry_types) = 1 THEN [op |-> "eq", types |-> {entry_types[1]}]
    ELSE [op |-> "none", types |-> {}]

WhereFilter(entry_types) ==
    IF Len(entry_types) = 0 THEN [op |-> "none", types |-> {}]
    ELSE IF Len(entry_types) = 1 THEN [op |-> "eq", types |-> {entry_types[1]}]
    ELSE [op |-> "in", types |-> Range(entry_types)]

\* the store's evaluation of a where filter on an entry's metadata
Matches(where, meta) ==
    where.op = "none" \/ ("type" \in DOMAIN meta /\ meta["type"] \in where.types)

\* the embedding distance of a query text to a stored text
Distance(topic, text) ==
    CASE text = "bio" -> IF topic = 1 THEN 1 ELSE 7
      [] text = "epic" -> IF topic = 1 THEN 6 ELSE 3
      [] OTHER -> 5

\* collection.query(query_texts, n_results, where) when it does not raise: the
\* n_results nearest of the entries that match the filter, closest first; entries
\* at equal distance come in any order
NearestLists(st, topic, where, k) ==
    LET M == {id \in DOMAIN st : Matches(where, st[id].meta)}
        n == Min(k, Cardinality(M))
        D(id) == Distance(topic, st[id].text)
    IN  {r \in [1..n -> M] :
            /\ \A i, j \in 1..n : i < j => (r[i] # r[j] /\ D(r[i]) <= D(r[j]))
            /\ \A id \in M \ Range(r) : \A i \in 1..n : D(r[i]) <= D(id)}

\* _query_chromadb's formatting of the results: text, metadata, distance (and
\* the id the store returned them under)
Formatted(st, topic, r) ==
    [i \in DOMAIN r |-> [text |-> st[r[i]].text, metadata |-> st[r[i]].meta,
                          distance |-> Distance(topic, st[r[i]].text), id |-> r[i]]]

\* MemoryManager._query_chromadb: the formatted results; [] when the store raises
query_chromadb(st, topic, r, outcome) ==
    IF outcome = "raise" THEN <<>> ELSE Formatted(st, topic, r)

\* whether an exception of the store leaves query: _query_chromadb's handler
\* logs it and returns []
QueryRaisesOnError(outcome) == db_type = "chromadb" /\ outcome = "raise"

QueryRaises(outcome) == FALSE

\* MemoryManager.query: by backend; _query_lancedb returns []
query(st, topic, r, outcome) ==
    IF db_type = "chromadb" THEN query_chromadb(st, topic, r, outcome)
    ELSE <<>>

\* str.upper() on the type names
Upper(t) ==
    CASE t = "story_bible" -> "STORY_BIBLE"
      [] t = "world" -> "WORLD"
      [] t = "magic_system" -> "MAGIC_SYSTEM"
      [] t = "character" -> "CHARACTER"
      [] t = "scene_summary" -> "SCENE_SUMMARY"
      [] t = "continuity" -> "CONTINUITY"
      [] OTHER -> "UNKNOWN"

\* A formatted string is the sequence of its pieces.
\* f"[{entry_type.upper()}]\n{text}\n" with text = result['text'][:500]
ContextPartUncut(result) ==
    <<"[", Upper(IF "type" \in DOMAIN result.metadata THEN result.metadata["type"]
                 ELSE "unknown"),
      "]\n", Slice(result.text, StrLen(result.text)), "\n">>

ContextPart(result) ==
    <<"[", Upper(IF "type" \in DOMAIN result.metadata THEN result.metadata["type"]
                 ELSE "unknown"),
      "]\n", Slice(result.text, ContextLimit), "\n">>

RECURSIVE JoinTrailing(_, _)
JoinTrailing(sep, parts) ==
    IF parts = <<>> THEN <<>>
    ELSE parts[1] \o <<sep>> \o JoinTrailing(sep, Tail(parts))

RECURSIVE Join(_, _)
\* sep.join(parts)
Join(sep, parts) ==
    IF parts = <<>> THEN <<>>
    ELSE IF Len(parts) = 1 THEN parts[1]
    ELSE parts[1] \o <<sep>> \o Join(sep, Tail(parts))

ContextSeparator == "\n---\n"

\* the formatting half of get_context_for_scene
FormatContext(results) ==
    Join(ContextSeparator, [i \in DOMAIN results |-> ContextPart(results[i])])

\* the entry types get_context_for_scene asks for
ContextTypes == <<"character", "world", "scene_summary", "continuity">>

\* the topic of a query text, which decides the distances: plain query texts,
\* and f"Chapter {chapter} Scene {scene}: {scene_outline[:500]}"
Topics == {1, 2}

\* MemoryManager.add_entry
AddEntry(text, entry_type, metadata, addOut, updOut) ==
    LET meta == StandardMetadata(metadata, entry_type, text, now)
        id == generate_id(text, entry_type, now)
        entry == [text |-> text, meta |-> meta, etype |-> entry_type]
    IN  /\ store' = IF db_type = "chromadb"
                      THEN add_chromadb(store, id, entry, addOut, updOut)
                      ELSE add_lancedb(store, id, entry)
        /\ last_add' = [called |-> TRUE, id |-> id, text |-> text, etype |-> entry_type,
                        raised |-> AddRaises(addOut, updOut)]
        /\ mem_op' = "add"
        /\ UNCHANGED <<db_type, retrieval_top_k, now, query_args, query_result, context>>

\* MemoryManager.query
Query(topic, entry_types, top_k, outcome) ==
    /\ \E r \in NearestLists(store, topic, WhereFilter(entry_types), top_k) :
          query_result' = query(store, topic, r, outcome)
    /\ query_args' = [entry_types |-> entry_types, top_k |-> top_k,
                      backend |-> outcome, raised |-> QueryRaises(outcome)]
    /\ mem_op' = "query"
    /\ UNCHANGED <<db_type, retrieval_top_k, now, store, last_add, context>>

\* MemoryManager.get_context_for_scene
GetContextForScene(topic, outcome) ==
    /\ \E r \in NearestLists(store, topic, WhereFilter(ContextTypes), retrieval_top_k) :
          LET results == query(store, topic, r, outcome)
          IN  /\ query_result' = results
              /\ context' = FormatContext(results)
    /\ query_args' = [entry_types |-> ContextTypes, top_k |-> retrieval_top_k,
                      backend |-> outcome, raised |-> QueryRaises(outcome)]
    /\ mem_op' = "context"
    /\ UNCHANGED <<db_type, retrieval_top_k, now, store, last_add>>

\* the operation has returned and its caller has used the result
MemReturn ==
    /\ mem_op # "idle"
    /\ mem_op' = "idle"
    /\ last_add' = NoAdd
    /\ query_args' = NoQuery
    /\ query_result' = <<>>
    /\ context' = <<>>
    /\ UNCHANGED <<db_type, retrieval_top_k, now, store>>

\* a second passes
Tick ==
    /\ mem_op = "idle"
    /\ now < MaxClock
    /\ now' = now + 1
    /\ UNCHANGED <<db_type, retrieval_top_k, store, last_add, query_args,
                   query_result, context, mem_op>>

MemInit ==
    /\ db_type \in {"chromadb", "lancedb"}
    /\ retrieval_top_k \in 1..MaxTopK
    /\ now = 0
    /\ store = <<>>
    /\ last_add = NoAdd
    /\ query_args = NoQuery
    /\ query_result = <<>>
    /\ context = <<>>
    /\ mem_op = "idle"

\* the operations run one at a time: the pipeline is single-threaded
MemAdd ==
    /\ mem_op = "idle"
    /\ \E text \in MemTexts, entry_type \in AddedTypes, metadata \in CallerMetas,
          addOut \in AddOutcomes, updOut \in UpdateOutcomes :
           /\ \/ generate_id(text, entry_type, now) \in DOMAIN store
              \/ Cardinality(DOMAIN store) < MaxStore
           /\ AddEntry(text, entry_type, metadata, addOut, updOut)

MemQuery ==
    /\ mem_op = "idle"
    /\ \E topic \in Topics, entry_types \in TypeLists, top_k \in 1..MaxTopK,
          outcome \in {"ok", "raise"} :
           Query(topic, entry_types, top_k, outcome)

MemContext ==
    /\ mem_op = "idle"
    /\ \E topic \in Topics, outcome \in {"ok", "raise"} :
           GetContextForScene(topic, outcome)

\* ------------------------------------------------------- SceneGenerator

\* scene.max_retries is drawn from 0..MaxSceneRetries
MaxSceneRetries == 2
\* generate is called at most MaxRuns times
MaxRuns == 1

\* utils.count_words on the texts of the model
count_words(text) ==
    CASE text = "T1" -> 1000
      [] text = " T2 " -> 1500
      [] text = "W500" -> 500
      [] text = "W800" -> 800
      [] text = "W1200" -> 1200
      [] OTHER -> 0

\* scene.target_words, scene.min_words, scene.max_words
TargetWords == 1000
MinWords == 800
MaxWords == 1200

\* utils.validate_word_count: (valid, word_count, message). The message of the
\* in-range branch holds abs(word_count - target) / target * 100, kept here in
\* tenths of a percent; the division raises ZeroDivisionError when target is 0.
validate_word_count(text, target, min_words, max_words) ==
    LET word_count == count_words(text)
        diff == IF word_count < target THEN target - word_count ELSE word_count - target
    IN
    IF word_count < min_words
    THEN [raised |-> FALSE, valid |-> FALSE, word_count |-> word_count,
          message |-> "Too short", deviation |-> -1]
    ELSE IF word_count > max_words
    THEN [raised |-> FALSE, valid |-> FALSE, word_count |-> word_count,
          message |-> "Too long", deviation |-> -1]
    ELSE IF target = 0
    THEN [raised |-> TRUE, valid |-> FALSE, word_count |-> word_count,
          message |-> "ZeroDivisionError", deviation |-> -1]
    ELSE [raised |-> FALSE, valid |-> TRUE, word_count |-> word_count,
          message |-> "Valid", deviation |-> (diff * 1000) \div target]

\* utils.get_scene_path: .../scenes/{stage}/chapter_{chapter:02d}_scene_{scene:02d}_{version}.md
get_scene_path(book_name, chapter, scene, version, stage) ==
    [book |-> book_name, stage |-> stage, chapter |-> chapter, scene |-> scene,
     version |-> version, ext |-> ".md"]

\* _generate_and_save_summary's path: the "summary" version of the raw stage with
\* '.md' replaced by '_summary.txt'
summary_path(book_name, chapter, scene) ==
    [get_scene_path(book_name, chapter, scene, "summary", "raw") EXCEPT !.ext = "_summary.txt"]

\* utils.save_text_file
save_text_file(fs, content, path) ==
    [x \in DOMAIN fs \cup {path} |-> IF x = path THEN content ELSE fs[x]]

BookName == "novel"

\* the stores generate can find: empty, or holding a character bio that add_entry wrote
SceneStores ==
    {<<>>,
     add_chromadb(<<>>, generate_id("epic", "character", 0),
                  [text |-> "epic",
                   meta |-> StandardMetadata([some |-> FALSE, dict |-> EmptyDict],
                                             "character", "epic", 0),
                   etype |-> "character"],
                  "ok", "replace")}

VARIABLES
    scene_max_retries,  \* scene.max_retries
    auto_summarize,     \* memory.auto_summarize_scenes
    scene_pc,           \* where generate stands
    scene_args,         \* the arguments of the generate call in progress
    continuity,         \* what get_context_for_scene returned to generate
    prompt,             \* the prompt _build_prompt made
    gen_attempt,        \* the loop variable of _generate_with_validation
    prose,              \* the prose _generate_with_validation returned
    scene_result,       \* what generate returned
    files,              \* the artifacts on disk: path -> content
    gen_entered,        \* whether this generate reached _generate_with_validation
    prose_calls,        \* generate_with_retry calls for prose made by this generate
    attempts,           \* what generate_with_retry returned on each attempt of this generate
    backend_calls,      \* the backend calls made by the attempts of the latest generate (ghost)
    runs                \* generate calls so far

sceneVars == <<scene_max_retries, auto_summarize, scene_pc, scene_args, continuity,
               prompt, gen_attempt, prose, scene_result, files, gen_entered,
               prose_calls, attempts, backend_calls, runs>>

NoArgs == [chapter |-> 0, scene |-> 0, topic |-> 0, outline_exists |-> FALSE, save |-> FALSE]
NoPrompt == [built |-> FALSE, chapter |-> 0, scene |-> 0, retrieved_continuity |-> <<>>]

\* SceneGenerator._build_prompt: the template filled in; of its fields the model
\* keeps the scene and the retrieved continuity
build_prompt(chapter, scene, cont) ==
    [built |-> TRUE, chapter |-> chapter, scene |-> scene, retrieved_continuity |-> cont]

\* the outline check is skipped
AfterOutlineIgnoresMissing(outline_exists) == "context"

\* get_context_for_scene is skipped
AfterOutlineSkipsMemory(outline_exists) == IF outline_exists THEN "generate" ELSE "done"

\* 'if not os.path.exists(scene_outline_path): return None'; otherwise generate
\* goes on to the memory query
AfterOutline(outline_exists) == IF outline_exists THEN "context" ELSE "done"

\* SceneGenerator.generate, up to the outline check: a missing outline file ends
\* the call with None
Generate(chapter, scene, topic, outline_exists, save) ==
    /\ scene_pc = "idle"
    /\ runs < MaxRuns
    /\ runs' = runs + 1
    /\ scene_args' = [chapter |-> chapter, scene |-> scene, topic |-> topic,
                      outline_exists |-> outline_exists, save |-> save]
    /\ continuity' = <<>>
    /\ prompt' = NoPrompt
    /\ gen_attempt' = 0
    /\ prose' = None
    /\ scene_result' = None
    /\ gen_entered' = FALSE
    /\ prose_calls' = 0
    /\ attempts' = <<>>
    /\ backend_calls' = 0
    /\ scene_pc' = AfterOutline(outline_exists)
    /\ UNCHANGED <<scene_max_retries, auto_summarize, files>>

\* generate from the memory query to the entry of _generate_with_validation:
\* get_context_for_scene, _build_prompt, and the first test of the retry loop
RetrieveContext(outcome) ==
    /\ scene_pc = "context"
    /\ GetContextForScene(scene_args.topic, outcome)
    /\ IF query_args'.raised
         THEN \* generate has no handler: the exception ends it
              /\ scene_pc' = "raised"
              /\ UNCHANGED <<continuity, prompt, gen_entered>>
         ELSE /\ continuity' = context'
              /\ prompt' = build_prompt(scene_args.chapter, scene_args.scene, context')
              /\ gen_entered' = TRUE
              /\ scene_pc' = IF scene_max_retries > 0 THEN "generate" ELSE "done"
    /\ UNCHANGED <<scene_max_retries, auto_summarize, scene_args, gen_attempt, prose,
                   scene_result, files, prose_calls, attempts, backend_calls, runs>>

\* _generate_with_validation calls generate_with_retry(prompt, 'prose')
CallForProse ==
    /\ scene_pc = "generate"
    /\ GenerateWithRetry("prose")
    /\ scene_pc' = "await_prose"
    /\ prose_calls' = prose_calls + 1
    /\ UNCHANGED <<scene_max_retries, auto_summarize, scene_args, continuity, prompt,
                   gen_attempt, prose, scene_result, files, gen_entered, attempts, backend_calls, runs>>

\* what generate does with accepted prose before the summary: the raw artifact
FilesAfterAccept(text) ==
    IF scene_args.save
    THEN save_text_file(files, text,
                        get_scene_path(BookName, scene_args.chapter, scene_args.scene, "v1", "raw"))
    ELSE files

\* the else branch of 'if attempt < max_retries - 1'
IsLastAttemptAlways(attempt_, max_) == TRUE

\* the loop runs once more than max_retries
IsLastAttemptLate(attempt_, max_) == ~(attempt_ < max_)

IsLastAttempt(attempt_, max_) == ~(attempt_ < max_ - 1)

\* whether an iteration of the loop returns the prose it got
AcceptsOnlyValid(text, valid, last) == Truthy(text) /\ valid

Accepts(text, valid, last) == Truthy(text) /\ (valid \/ last)

\* The rest of one iteration of _generate_with_validation, from the return of
\* generate_with_retry: no text -> next attempt; valid -> accept; invalid -> next
\* attempt, or accept on the last one. After the loop generate saves the raw
\* artifact and goes on to the summary, or returns None when no prose came back.
Validate ==
    /\ scene_pc = "await_prose"
    /\ llm_pc = "returned"
    /\ LLMReturn
    /\ attempts' = Append(attempts, llm_result)
    /\ backend_calls' = backend_calls + Len(calls)
    /\ LET text == llm_result
           last == IsLastAttempt(gen_attempt, scene_max_retries)
           checked == validate_word_count(text, TargetWords, MinWords, MaxWords)
           accepted == Accepts(text, checked.valid, last)
       IN  IF Truthy(text) /\ checked.raised
           THEN \* neither _generate_with_validation nor generate has a handler
                /\ scene_pc' = "raised"
                /\ UNCHANGED <<prose, scene_result, files, gen_attempt>>
           ELSE IF accepted
           THEN /\ prose' = text
                /\ files' = FilesAfterAccept(text)
                /\ IF scene_args.save /\ auto_summarize
                     THEN /\ scene_pc' = "summarize"
                          /\ UNCHANGED scene_result
                     ELSE /\ scene_pc' = "done"
                          /\ scene_result' = text
                /\ UNCHANGED gen_attempt
           ELSE IF ~last
           THEN /\ gen_attempt' = gen_attempt + 1
                /\ scene_pc' = "generate"
                /\ UNCHANGED <<prose, scene_result, files>>
           ELSE \* the loop is over with nothing to return: "Generation failed"
                /\ scene_pc' = "done"
                /\ scene_result' = None
                /\ UNCHANGED <<prose, files, gen_attempt>>
    /\ UNCHANGED <<scene_max_retries, auto_summarize, scene_args, continuity, prompt,
                   gen_entered, prose_calls, runs>>

\* _generate_and_save_summary calls llm.summarize, which calls
\* generate_with_retry(prompt, 'summarization')
CallForSummary ==
    /\ scene_pc = "summarize"
    /\ GenerateWithRetry("summarization")
    /\ scene_pc' = "await_summary"
    /\ UNCHANGED <<scene_max_retries, auto_summarize, scene_args, continuity, prompt,
                   gen_attempt, prose, scene_result, files, gen_entered, prose_calls,
                   attempts, backend_calls, runs>>

\* the metadata add_scene_summary passes to add_entry
SummaryMeta(chapter, scene, book_name) ==
    [some |-> TRUE,
     dict |-> [k \in {"chapter", "scene", "book"} |->
                 IF k = "chapter" THEN chapter ELSE IF k = "scene" THEN scene ELSE book_name]]

\* a missing summary fails the generation
ResultNeedsSummary(text, summary) == IF Truthy(summary) THEN text ELSE None

\* 'return prose' at the end of generate: _generate_and_save_summary returns
\* nothing, so what generate returns does not depend on the summary
ResultAfterSummary(text, summary) == text

\* The rest of _generate_and_save_summary: with a summary, add_scene_summary and
\* the summary file; then generate returns the prose.
SaveSummary(addOut, updOut) ==
    /\ scene_pc = "await_summary"
    /\ llm_pc = "returned"
    /\ LLMReturn
    /\ IF Truthy(llm_result)
         THEN /\ AddEntry(llm_result, "scene_summary",
                          SummaryMeta(scene_args.chapter, scene_args.scene, BookName),
                          addOut, updOut)
              /\ files' = save_text_file(files, llm_result,
                              summary_path(BookName, scene_args.chapter, scene_args.scene))
         ELSE /\ UNCHANGED memVars
              /\ files' = files
    /\ scene_pc' = "done"
    /\ scene_result' = ResultAfterSummary(prose, llm_result)
    /\ UNCHANGED <<scene_max_retries, auto_summarize, scene_args, continuity, prompt,
                   gen_attempt, prose, gen_entered, prose_calls, attempts, backend_calls, runs>>

\* generate has returned (or raised) and its caller goes on
SceneReturn ==
    /\ scene_pc \in {"done", "raised"}
    /\ scene_pc' = "idle"
    /\ scene_args' = NoArgs
    /\ continuity' = <<>>
    /\ prompt' = NoPrompt
    /\ gen_attempt' = 0
    /\ prose' = None
    /\ scene_result' = None
    /\ gen_entered' = FALSE
    /\ prose_calls' = 0
    /\ attempts' = <<>>
    /\ UNCHANGED <<scene_max_retries, auto_summarize, files, backend_calls, runs>>

SceneInit ==
    /\ scene_max_retries \in 0..MaxSceneRetries
    /\ auto_summarize \in BOOLEAN
    /\ scene_pc = "idle"
    /\ scene_args = NoArgs
    /\ continuity = <<>>
    /\ prompt = NoPrompt
    /\ gen_attempt = 0
    /\ prose = None
    /\ scene_result = None
    /\ files = <<>>
    /\ gen_entered = FALSE
    /\ prose_calls = 0
    /\ attempts = <<>>
    /\ backend_calls = 0
    /\ runs = 0

\* a scene generator nobody calls
SceneLocalsIdle ==
    /\ scene_max_retries = 1
    /\ auto_summarize = FALSE
    /\ scene_pc = "idle"
    /\ scene_args = NoArgs
    /\ continuity = <<>>
    /\ prompt = NoPrompt
    /\ gen_attempt = 0
    /\ prose = None
    /\ scene_result = None
    /\ gen_entered = FALSE
    /\ prose_calls = 0
    /\ attempts = <<>>
    /\ backend_calls = 0
    /\ runs = 0

\* and an empty disk
SceneIdle == SceneLocalsIdle /\ files = <<>>

\* the configurations of the scene specification
SceneModelsCfgs ==
    {[prose |-> [primary |-> "main", model |-> None, fallback |-> None,
                 alternatives |-> <<>>]],
     [prose |-> [primary |-> "main", model |-> None, fallback |-> "backup",
                 alternatives |-> <<>>]]}

SceneLLMInit ==
    /\ models_cfg \in SceneModelsCfgs
    /\ max_retries \in 1..MaxRetries
    /\ llm_pc = "idle"
    /\ llm_key = None
    /\ chain_pos = 1
    /\ attempt = 0
    /\ llm_result = None
    /\ calls = <<>>
    /\ last_outcome = NoOutcome
    /\ slept = FALSE
    /\ first_ok = None
    /\ late_calls = 0

SceneMemInit ==
    /\ db_type = "chromadb"
    /\ retrieval_top_k = 1
    /\ now = 0
    /\ store \in SceneStores
    /\ last_add = NoAdd
    /\ query_args = NoQuery
    /\ query_result = <<>>
    /\ context = <<>>
    /\ mem_op = "idle"

SceneGenerate ==
    \E chapter \in {1}, scene \in {1, 2}, topic \in {1}, outline_exists \in BOOLEAN,
       save \in BOOLEAN :
        Generate(chapter, scene, topic, outline_exists, save)

SceneContext == \E outcome \in {"ok", "raise"} : RetrieveContext(outcome)

SceneSaveSummary ==
    \E addOut \in AddOutcomes, updOut \in UpdateOutcomes : SaveSummary(addOut, updOut)

\* ------------------------------------------------------- pure functions

VARIABLES
    fcall,   \* a call of a function of utils: its name and arguments
    fret     \* what the call returned, once it has

NoCall == [fn |-> "none"]
NoRet == [fn |-> "none"]

\* the arguments validate_word_count is applied to
VwInputs ==
    [text : {"", "W500", "W800", "T1", "W1200", " T2 "}, target : {0, 1000, 2000},
     min_words : {0, 800}, max_words : {900, 1200}]

\* one call of utils.validate_word_count
ValidateWordCount ==
    /\ fcall.fn = "validate_word_count"
    /\ fret = NoRet
    /\ fret' = [fn |-> fcall.fn,
                val |-> validate_word_count(fcall.args.text, fcall.args.target,
                                            fcall.args.min_words, fcall.args.max_words)]
    /\ UNCHANGED fcall

\* ------------------------------------------------------- SceneRefiner

\* refine_chapter is called with num_scenes in 0..MaxScenes
MaxScenes == 2
\* refine is entered at most MaxRefines times
MaxRefines == 2

\* the keys of SceneRefiner.prompts
Prompts == {"cohesion", "style", "polish"}

\* refine's default for passes
DefaultPasses == <<"cohesion", "style", "polish">>

\* the pass lists refine is called with
PassLists ==
    {<<>>, <<"cohesion", "style">>, DefaultPasses, <<"cohesion", "grammar">>,
     <<"style", "style", "polish">>}

\* the pass number is left out of the tag
VersionTagNameOnly(pass_num, pass_type) == "v_" \o pass_type

\* f"v{pass_num + 1}_{pass_type}"
VersionTag(pass_num, pass_type) == "v" \o ToString(pass_num + 1) \o "_" \o pass_type

\* SceneRefiner._get_stage_name
StageAlwaysFinal(pass_num, total_passes) == "final"

get_stage_name(pass_num, total_passes) ==
    IF pass_num < total_passes THEN "refined" ELSE "final"

\* the chapter the refiner and the assembler work on
Chapter == 1

RawPath(scene) == get_scene_path(BookName, Chapter, scene, "v1", "raw")
FinalPath(scene) == get_scene_path(BookName, Chapter, scene, "FINAL", "final")

VARIABLES
    ref,           \* the refine call in progress: its arguments, locals and result
    rch,           \* the refine_chapter call in progress
    refines,       \* refine calls so far
    batch          \* the refine_from_list call in progress

refVars == <<ref, rch, refines, batch>>

NoRef == [pc |-> "idle", scene |-> 0, passes |-> <<>>, pass_num |-> 0, content |-> None,
          current_content |-> None, result |-> FALSE,
          written |-> <<>>,    \* the paths save_text_file was called with, in order
          calls |-> 0,         \* generate_with_retry calls made
          backend |-> 0,       \* backend calls made by the calls that have returned
          inputs |-> <<>>,     \* the content each _run_pass call was given
          returned |-> <<>>,   \* the text each pass that succeeded returned
          failed_at |-> 0]     \* the pass that returned no text, if any
NoRch == [pc |-> "idle", num_scenes |-> 0, scene |-> 0, success_count |-> 0,
          result |-> FALSE,
          refined |-> <<>>]    \* what refine returned for each scene it was called on

\* SceneRefiner.refine up to its loop: a missing scene file ends it with False;
\* with no passes the loop is empty and the FINAL artifact is the input
Refine(scene, passes) ==
    /\ ref.pc = "idle"
    /\ refines < MaxRefines
    /\ refines' = refines + 1
    /\ LET called == [NoRef EXCEPT !.scene = scene, !.passes = passes] IN
       IF RawPath(scene) \notin DOMAIN files
       THEN /\ ref' = [called EXCEPT !.pc = "done"]
            /\ UNCHANGED files
       ELSE LET content == files[RawPath(scene)]
                loaded == [called EXCEPT !.content = content, !.current_content = content]
            IN  IF passes = <<>>
                THEN /\ files' = save_text_file(files, content, FinalPath(scene))
                     /\ ref' = [loaded EXCEPT !.pc = "done", !.result = TRUE,
                                              !.written = <<FinalPath(scene)>>]
                ELSE /\ ref' = [loaded EXCEPT !.pc = "loop", !.pass_num = 1]
                     /\ UNCHANGED files

\* every pass is run on the scene as loaded
PassInputOriginal(r) == r.content

\* 'refined = self._run_pass(current_content, pass_type)'
PassInput(r) == r.current_content

\* SceneRefiner._run_pass: an unknown pass type returns None, which ends refine
\* with False; otherwise llm.refine_scene calls generate_with_retry(_, 'refinement')
RunPass ==
    /\ ref.pc = "loop"
    /\ IF ref.passes[ref.pass_num] \notin Prompts
         THEN /\ ref' = [ref EXCEPT !.pc = "done", !.result = FALSE,
                                    !.failed_at = ref.pass_num,
                                    !.inputs = Append(ref.inputs, PassInput(ref))]
              /\ UNCHANGED llmVars
         ELSE /\ GenerateWithRetry("refinement")
              /\ ref' = [ref EXCEPT !.pc = "await", !.calls = ref.calls + 1,
                                    !.inputs = Append(ref.inputs, PassInput(ref))]
    /\ UNCHANGED <<files, rch, refines>>

\* 'if refined:' is false
PassFailedNever(refined) == FALSE

PassFailed(refined) == ~Truthy(refined)

\* The rest of one iteration of refine's loop, from the return of _run_pass:
\* with text, the pass artifact is saved and becomes the input of the next pass,
\* and after the last pass the FINAL artifact is saved; with no text refine
\* returns False.
PassReturn ==
    /\ ref.pc = "await"
    /\ llm_pc = "returned"
    /\ LLMReturn
    /\ LET refined == llm_result
           n == Len(ref.passes)
           output_path == get_scene_path(BookName, Chapter, ref.scene,
                                         VersionTag(ref.pass_num, ref.passes[ref.pass_num]),
                                         get_stage_name(ref.pass_num, n))
           saved == save_text_file(files, refined, output_path)
           noted == [ref EXCEPT !.failed_at = IF Truthy(refined) THEN 0 ELSE ref.pass_num,
                                !.backend = ref.backend + Len(calls),
                                !.returned = IF Truthy(refined)
                                             THEN Append(ref.returned, refined)
                                             ELSE ref.returned]
       IN  IF PassFailed(refined)
           THEN /\ ref' = [noted EXCEPT !.pc = "done", !.result = FALSE]
                /\ UNCHANGED files
           ELSE IF ref.pass_num < n
           THEN /\ files' = saved
                /\ ref' = [noted EXCEPT !.pc = "loop", !.pass_num = ref.pass_num + 1,
                                        !.current_content = refined,
                                        !.written = Append(ref.written, output_path)]
           ELSE /\ files' = save_text_file(saved, refined, FinalPath(ref.scene))
                /\ ref' = [noted EXCEPT !.pc = "done", !.result = TRUE,
                                        !.current_content = refined,
                                        !.written = ref.written \o
                                                    <<output_path, FinalPath(ref.scene)>>]
    /\ UNCHANGED <<rch, refines>>

\* refine has returned: to its caller, or to the loop of refine_chapter, which
\* counts a success and goes on to the next scene
RefineReturn ==
    /\ ref.pc = "done"
    /\ ref' = NoRef
    /\ rch' = IF rch.pc = "loop"
               THEN [rch EXCEPT !.success_count = rch.success_count +
                                                  (IF ref.result THEN 1 ELSE 0),
                                !.scene = rch.scene + 1,
                                !.refined = Append(rch.refined,
                                                   [scene |-> ref.scene, success |-> ref.result])]
               ELSE rch
    /\ UNCHANGED <<files, refines>>

\* SceneRefiner.refine_chapter is called
RefineChapter(num_scenes) ==
    /\ rch.pc = "idle"
    /\ ref.pc = "idle"
    /\ rch' = [NoRch EXCEPT !.pc = "loop", !.num_scenes = num_scenes, !.scene = 1]
    /\ UNCHANGED <<files, ref, refines>>

\* one iteration of refine_chapter's loop up to the refine call: a scene without
\* a raw artifact is skipped; after scene num_scenes the call returns
\* success_count == num_scenes
ChapterStep ==
    /\ rch.pc = "loop"
    /\ ref.pc = "idle"
    /\ IF rch.scene > rch.num_scenes
         THEN /\ rch' = [rch EXCEPT !.pc = "done",
                                    !.result = (rch.success_count = rch.num_scenes)]
              /\ UNCHANGED <<files, ref, refines>>
         ELSE IF RawPath(rch.scene) \notin DOMAIN files
         THEN /\ rch' = [rch EXCEPT !.scene = rch.scene + 1]
              /\ UNCHANGED <<files, ref, refines>>
         ELSE /\ Refine(rch.scene, DefaultPasses)
              /\ UNCHANGED rch

\* refine_chapter has returned
ChapterReturn ==
    /\ rch.pc = "done"
    /\ rch' = NoRch
    /\ UNCHANGED <<files, ref, refines>>

\* ---------------------------------------------------------- BatchRefiner

NoBatch == [pc |-> "idle", scenes |-> <<>>, pos |-> 0,
            attempted |-> <<>>,   \* the scenes refine was called on, in order
            results |-> <<>>,     \* what each of these calls returned
            result |-> FALSE]

\* The lines of a scene list, 'book,chapter,scene,path', as refine_from_list
\* splits them: "ok" has four fields with integer chapter and scene, and names
\* the raw artifact of the scene as the path; "short" has fewer than four fields.
ListLines ==
    {[kind |-> "ok", scene |-> sc] : sc \in 1..MaxScenes} \cup {[kind |-> "short", scene |-> 0]}

\* the scene lists of up to MaxRefines lines
SceneLists == UNION {[1..n -> ListLines] : n \in 0..MaxRefines}

\* the loop stops at a refine call that returned False
BatchStopsOnFailure(result) == result

\* the loop of refine_from_list does not look at what refine returns
BatchContinues(result) == TRUE

\* BatchRefiner.refine_from_list is called on a list file
RefineFromList(scenes) ==
    /\ batch.pc = "idle"
    /\ ref.pc = "idle"
    /\ rch.pc = "idle"
    /\ batch' = [NoBatch EXCEPT !.pc = "loop", !.scenes = scenes, !.pos = 1]
    /\ UNCHANGED <<files, ref, rch, refines>>

\* One iteration of the loop 'for book, chapter, scene, path in scenes' up to the
\* refine call: unpacking a line of fewer than four fields raises ValueError,
\* which nothing catches; after the last line the call returns True.
BatchStep ==
    /\ batch.pc = "loop"
    /\ ref.pc = "idle"
    /\ IF batch.pos > Len(batch.scenes)
         THEN /\ batch' = [batch EXCEPT !.pc = "done", !.result = TRUE]
              /\ UNCHANGED <<files, ref, rch, refines>>
         ELSE IF batch.scenes[batch.pos].kind # "ok"
         THEN /\ batch' = [batch EXCEPT !.pc = "raised"]
              /\ UNCHANGED <<files, ref, rch, refines>>
         ELSE /\ Refine(batch.scenes[batch.pos].scene, DefaultPasses)
              /\ batch' = [batch EXCEPT !.attempted =
                                Append(batch.attempted, batch.scenes[batch.pos].scene)]
              /\ UNCHANGED rch

\* refine returns to the loop, which goes on to the next line
BatchCollect ==
    /\ batch.pc = "loop"
    /\ RefineReturn
    /\ batch' = IF BatchContinues(ref.result)
                 THEN [batch EXCEPT !.pos = batch.pos + 1,
                                    !.results = Append(batch.results, ref.result)]
                 ELSE [batch EXCEPT !.pc = "done",
                                    !.results = Append(batch.results, ref.result)]

\* the raw artifacts generate has left for the refiner: any of scenes 1..MaxScenes
RawFiles ==
    {[p \in {RawPath(sc) : sc \in S} |-> "T1"] : S \in SUBSET (1..MaxScenes)}

\* ------------------------------------------------------- ChapterAssembler

\* A text the assembler handles is a sequence of tokens: the marker "---", the
\* newline and runs of other characters. Concatenating texts is concatenating
\* their token sequences.

\* the contents a finalized scene artifact can have: plain text, an empty file,
\* text under a metadata block, a metadata block alone, text after one marker
SceneContents ==
    {<<"Text A">>, <<"Text B">>, <<>>,
     <<"---", "\n", "title: C", "\n", "---", "\n", "Text C", "\n">>,
     <<"---", "\n", "title: D", "\n", "---", "\n">>,
     <<"---", "\n", "Text E">>}

RECURSIVE StripWs(_)
\* str.strip
StripWs(text) ==
    IF text = <<>> THEN text
    ELSE IF Head(text) = "\n" THEN StripWs(Tail(text))
    ELSE IF text[Len(text)] = "\n" THEN StripWs(SubSeq(text, 1, Len(text) - 1))
    ELSE text

\* ChapterAssembler._remove_scene_header: content.split('---', 2) has three
\* parts when a second marker follows the leading one; the third, stripped, is kept
remove_scene_header(content) ==
    LET later == {i \in 2..Len(content) : content[i] = "---"} IN
    IF content # <<>> /\ Head(content) = "---" /\ later # {}
    THEN LET second == CHOOSE i \in later : \A j \in later : i <= j
         IN  StripWs(SubSeq(content, second + 1, Len(content)))
    ELSE content

\* every version of a chapter gets one path
ChapterPathOneVersion(book_name, chapter, version) ==
    [book |-> book_name, stage |-> "chapters", chapter |-> chapter, scene |-> 0,
     version |-> "v1", ext |-> ".md"]

\* the chapter artifact is put among the finalized scenes
ChapterPathAmongScenes(book_name, chapter, version) ==
    get_scene_path(book_name, chapter, 0, "FINAL", "final")

\* utils.get_chapter_path: .../chapters/chapter_{chapter:02d}_{version}.md
get_chapter_path(book_name, chapter, version) ==
    [book |-> book_name, stage |-> "chapters", chapter |-> chapter, scene |-> 0,
     version |-> version, ext |-> ".md"]

\* the characters of f"{n:02d}", as character codes, for 0 <= n < 1000
Pad2(n) ==
    IF n < 10 THEN <<48, 48 + n>>
    ELSE IF n < 100 THEN <<48 + (n \div 10), 48 + (n % 10)>>
    ELSE <<48 + (n \div 100), 48 + ((n \div 10) % 10), 48 + (n % 10)>>

\* The name get_scene_path gives an artifact, as character codes, from the
\* chapter number on: f"{chapter:02d}_scene_{scene:02d}_{version}.md". Of the
\* fixed text '_scene_' and of what follows the scene number the '_' (95) is
\* kept: names of one chapter and version differ in nothing else.
FileName(path) == Pad2(path.chapter) \o <<95>> \o Pad2(path.scene) \o <<95>>

RECURSIVE LexLess(_, _)
\* the order of str that list.sort uses
LexLess(a, b) ==
    IF a = <<>> THEN b # <<>>
    ELSE IF b = <<>> THEN FALSE
    ELSE IF Head(a) # Head(b) THEN Head(a) < Head(b)
    ELSE LexLess(Tail(a), Tail(b))

\* ChapterAssembler._discover_scenes: the *_FINAL.md files of the chapter in the
\* final directory, or in the refined directory when there is no final one,
\* sorted by name
discover_scenes(fs, book_name, chapter) ==
    LET dir == IF \E p \in DOMAIN fs : p.book = book_name /\ p.stage = "final"
               THEN "final" ELSE "refined"
        found == {p \in DOMAIN fs : /\ p.book = book_name /\ p.stage = dir
                                    /\ p.chapter = chapter /\ p.version = "FINAL"}
    IN  CHOOSE sorted \in [1..Cardinality(found) -> found] :
            \A i, j \in 1..Cardinality(found) :
                i < j => LexLess(FileName(sorted[i]), FileName(sorted[j]))

RECURSIVE SceneParts(_, _)
\* the loop of _concatenate_scenes: an empty file is skipped; the others add
\* their content without its header, and the scene separator
SceneParts(fs, scene_paths) ==
    IF scene_paths = <<>> THEN <<>>
    ELSE LET content == fs[Head(scene_paths)] IN
         (IF content = <<>> THEN <<>>
          ELSE <<remove_scene_header(content), <<"\n", "\n", "---", "\n", "\n">> >>)
         \o SceneParts(fs, Tail(scene_paths))

\* 'if parts and parts[-1].strip() == "---": parts.pop()'
KeepLastSeparator(parts) == parts

RemoveLastSeparator(parts) ==
    IF parts # <<>> /\ StripWs(parts[Len(parts)]) = <<"---">>
    THEN SubSeq(parts, 1, Len(parts) - 1) ELSE parts

RECURSIVE JoinParts(_)
\* ''.join(parts)
JoinParts(parts) == IF parts = <<>> THEN <<>> ELSE Head(parts) \o JoinParts(Tail(parts))

\* ChapterAssembler._concatenate_scenes
concatenate_scenes(fs, scene_paths, chapter) ==
    JoinParts(RemoveLastSeparator(<< <<"# Chapter " \o ToString(chapter), "\n", "\n">> >>
                                  \o SceneParts(fs, scene_paths)))

VARIABLES
    asm            \* the assemble call in progress, and chapter.smoothing_enabled

NoAsm == [pc |-> "idle", smoothing_enabled |-> TRUE, chapter |-> 0, smooth |-> FALSE,
          scene_paths |-> <<>>, chapter_content |-> <<>>,
          smoothed |-> None,   \* what _smooth_chapter returned
          result |-> [some |-> FALSE, text |-> <<>>],
          written |-> <<>>]    \* the paths save_text_file was called with, in order

\* ChapterAssembler.assemble up to the smoothing call: no scenes -> None; else
\* the concatenation is saved as the raw chapter and, unless smoothing is asked
\* for and enabled, returned
Assemble(chapter, smooth) ==
    /\ asm.pc = "idle"
    /\ LET scene_paths == discover_scenes(files, BookName, chapter)
           chapter_content == concatenate_scenes(files, scene_paths, chapter)
           raw_path == get_chapter_path(BookName, chapter, "raw")
           called == [asm EXCEPT !.chapter = chapter, !.smooth = smooth,
                                 !.scene_paths = scene_paths]
       IN  IF scene_paths = <<>> \/ chapter_content = <<>>
           THEN /\ asm' = [called EXCEPT !.pc = "done"]
                /\ UNCHANGED <<files, llmVars>>
           ELSE /\ files' = save_text_file(files, chapter_content, raw_path)
                /\ IF smooth /\ asm.smoothing_enabled
                     THEN /\ GenerateWithRetry("review")
                          /\ asm' = [called EXCEPT !.pc = "await",
                                                   !.chapter_content = chapter_content,
                                                   !.written = <<raw_path>>]
                     ELSE /\ asm' = [called EXCEPT !.pc = "done",
                                                   !.chapter_content = chapter_content,
                                                   !.result = [some |-> TRUE,
                                                               text |-> chapter_content],
                                                   !.written = <<raw_path>>]
                          /\ UNCHANGED llmVars

SmoothedAlways(smoothed) == TRUE

\* 'if smoothed:' in assemble
HasSmoothed(smoothed) == Truthy(smoothed)

\* the rest of assemble, from the return of _smooth_chapter: a smoothed text is
\* saved as version v1 and returned; without one the raw concatenation is returned
SmoothReturn ==
    /\ asm.pc = "await"
    /\ llm_pc = "returned"
    /\ LLMReturn
    /\ LET smoothed == llm_result
           smooth_path == get_chapter_path(BookName, asm.chapter, "v1")
       IN  IF HasSmoothed(smoothed)
           THEN /\ files' = save_text_file(files, <<smoothed>>, smooth_path)
                /\ asm' = [asm EXCEPT !.pc = "done", !.smoothed = smoothed,
                                      !.result = [some |-> TRUE, text |-> <<smoothed>>],
                                      !.written = Append(asm.written, smooth_path)]
           ELSE /\ asm' = [asm EXCEPT !.pc = "done", !.smoothed = None,
                                      !.result = [some |-> TRUE, text |-> asm.chapter_content]]
                /\ UNCHANGED files

\* assemble has returned
AsmReturn ==
    /\ asm.pc = "done"
    /\ asm' = [NoAsm EXCEPT !.smoothing_enabled = asm.smoothing_enabled]
    /\ UNCHANGED files

MaxChapters == 2

VARIABLES
    book           \* the assemble_book call in progress

asmVars == <<asm, book>>

NoBook == [pc |-> "idle", num_chapters |-> 0, chapter |-> 0,
           results |-> <<>>,   \* whether assemble returned a chapter, for each one
           result |-> FALSE]

\* output/{book_name}/{book_name}_manuscript.md
ManuscriptPath(book_name) ==
    [book |-> book_name, stage |-> "output", chapter |-> 0, scene |-> 0,
     version |-> "manuscript", ext |-> ".md"]

RECURSIVE ManuscriptParts(_, _, _, _)
\* the loop of _create_manuscript from one chapter on: a chapter whose "v1" file
\* exists adds its content and "\n\n"
ManuscriptParts(fs, book_name, chapter, num_chapters) ==
    IF chapter > num_chapters THEN <<>>
    ELSE LET chapter_path == get_chapter_path(book_name, chapter, "v1") IN
         (IF chapter_path \in DOMAIN fs THEN fs[chapter_path] \o <<"\n", "\n">> ELSE <<>>)
         \o ManuscriptParts(fs, book_name, chapter + 1, num_chapters)

\* the text _create_manuscript saves
create_manuscript(fs, book_name, num_chapters) ==
    <<"# " \o book_name, "\n", "\n", "*Generated with StoryApp*", "\n", "\n",
      "---", "\n", "\n">>
        \o ManuscriptParts(fs, book_name, 1, num_chapters)

\* ChapterAssembler.assemble_book is called
AssembleBook(num_chapters) ==
    /\ book.pc = "idle"
    /\ asm.pc = "idle"
    /\ book' = [NoBook EXCEPT !.pc = "loop", !.num_chapters = num_chapters, !.chapter = 1]
    /\ UNCHANGED <<asm, files>>

\* the loop of assemble_book calls assemble(book_name, chapter), smoothing asked for
BookAssemble ==
    /\ book.pc = "loop"
    /\ book.chapter <= book.num_chapters
    /\ Assemble(book.chapter, TRUE)
    /\ UNCHANGED book

\* assemble returns to the loop, which notes the result and goes on whatever it is
BookCollect ==
    /\ book.pc = "loop"
    /\ book' = [book EXCEPT !.chapter = book.chapter + 1,
                            !.results = Append(book.results, asm.result.some)]
    /\ AsmReturn

\* the book counts as assembled only if some chapter was
BookResultAnyChapter(results) == \E c \in 1..Len(results) : results[c]

\* 'return True' at the end of assemble_book, whatever assemble returned
BookResult(results) == TRUE

\* after the loop: _create_manuscript, and assemble_book returns True
CreateManuscript ==
    /\ book.pc = "loop"
    /\ asm.pc = "idle"
    /\ book.chapter > book.num_chapters
    /\ files' = save_text_file(files,
                               create_manuscript(files, BookName, book.num_chapters),
                               ManuscriptPath(BookName))
    /\ book' = [book EXCEPT !.pc = "done", !.result = BookResult(book.results)]
    /\ UNCHANGED asm

\* ------------------------------------------- functions on bounded inputs

\* one call of _discover_scenes on a disk that holds the FINAL artifacts of the
\* given scenes of the chapter
DiscoverScenes ==
    /\ fcall.fn = "discover_scenes"
    /\ fret = NoRet
    /\ fret' = [fn |-> fcall.fn,
                val |-> discover_scenes([p \in {FinalPath(sc) : sc \in fcall.args.scenes}
                                           |-> <<"Text A">>],
                                        BookName, Chapter)]
    /\ UNCHANGED fcall

\* The lines an outline is made of: the label the line contains ("none" for a
\* line with no recognized label) and the text after its first colon, stripped.
OutlineLines ==
    {[label |-> "POV Character:", value |-> "Ann"],
     [label |-> "Location:", value |-> "Rome"],
     [label |-> "Primary Location:", value |-> "Paris"],
     [label |-> "Scene Title:", value |-> "Dawn"],
     [label |-> "Estimated Word Count:", value |-> "1500"],
     [label |-> "Estimated Word Count:", value |-> "1500 words"],
     [label |-> "Estimated Word Count:", value |-> ""],
     [label |-> "Estimated Word Count:", value |-> "about 1500"],
     [label |-> "none", value |-> "plain text"]}

MaxLines == 2

Outlines == UNION {[1..n -> OutlineLines] : n \in 0..MaxLines}

\* int(wc.split()[0]): IndexError on an empty value, ValueError on a first word
\* that is no integer literal
IntOfFirstWord(wc) ==
    CASE wc = "1500" -> [raised |-> FALSE, val |-> 1500]
      [] wc = "1500 words" -> [raised |-> FALSE, val |-> 1500]
      [] OTHER -> [raised |-> TRUE, val |-> 0]

WordCountLineUnguarded(metadata, wc) ==
    LET r == IntOfFirstWord(wc)
    IN  IF r.raised THEN [metadata EXCEPT !.raised = TRUE]
        ELSE [metadata EXCEPT !.target_word_count = r.val]

\* the try / except: pass around the word-count line
WordCountLine(metadata, wc) ==
    LET r == IntOfFirstWord(wc)
    IN  IF r.raised THEN metadata
        ELSE [metadata EXCEPT !.target_word_count = r.val]

\* the if / elif chain of _extract_scene_metadata on one line
MetadataLine(metadata, line) ==
    IF metadata.raised THEN metadata
    ELSE IF line.label = "POV Character:" THEN [metadata EXCEPT !.pov_character = line.value]
    ELSE IF line.label \in {"Location:", "Primary Location:"}
         THEN [metadata EXCEPT !.location = line.value]
    ELSE IF line.label = "Scene Title:" THEN [metadata EXCEPT !.scene_title = line.value]
    ELSE IF line.label = "Estimated Word Count:" THEN WordCountLine(metadata, line.value)
    ELSE metadata

RECURSIVE MetadataLines(_, _)
MetadataLines(metadata, lines) ==
    IF lines = <<>> THEN metadata
    ELSE MetadataLines(MetadataLine(metadata, Head(lines)), Tail(lines))

\* SceneGenerator._extract_scene_metadata; raised: an exception left the function
extract_scene_metadata(outline) ==
    MetadataLines([raised |-> FALSE,
                   pov_character |-> "Unknown",
                   location |-> "Unknown",
                   scene_title |-> "Untitled",
                   target_word_count |-> TargetWords], outline)

ExtractSceneMetadata ==
    /\ fcall.fn = "extract_scene_metadata"
    /\ fret = NoRet
    /\ fret' = [fn |-> fcall.fn, val |-> extract_scene_metadata(fcall.args.outline)]
    /\ UNCHANGED fcall

\* The lines response.iter_lines() yields: an empty line; a line that is no
\* JSON ("garbage"); a JSON value that is no object ("nonobj"); a JSON object
\* with or without a 'response' text and with or without a true 'done'.
StreamLines ==
    {[kind |-> k, response |-> None, done |-> FALSE] : k \in {"empty", "garbage", "nonobj"}}
        \cup {[kind |-> "obj", response |-> r, done |-> d] :
                 r \in {None, "a", "b"}, d \in BOOLEAN}

MaxChunks == 3

Streams == UNION {[1..n -> StreamLines] : n \in 0..MaxChunks}

\* the loop reads the stream to its end
NeverStops(chunk) == FALSE

\* 'if chunk.get('done', False): break'
StopsAt(chunk) == chunk.done

RECURSIVE HandleFrom(_, _)
\* The loop of _handle_stream on the lines left, full_response joined so far.
\* An empty line is passed over; json.loads of garbage raises JSONDecodeError,
\* which the loop catches; on a value that is no object "'response' in chunk"
\* or chunk.get raises TypeError or AttributeError, which nothing catches.
HandleFrom(lines, full_response) ==
    IF lines = <<>> THEN [raised |-> FALSE, text |-> full_response]
    ELSE LET chunk == Head(lines) IN
         IF chunk.kind \in {"empty", "garbage"} THEN HandleFrom(Tail(lines), full_response)
         ELSE IF chunk.kind = "nonobj" THEN [raised |-> TRUE, text |-> ""]
         ELSE LET appended == IF chunk.response # None
                              THEN full_response \o chunk.response ELSE full_response
              IN  IF StopsAt(chunk) THEN [raised |-> FALSE, text |-> appended]
                  ELSE HandleFrom(Tail(lines), appended)

\* OllamaClient._handle_stream
handle_stream(lines) == HandleFrom(lines, "")

HandleStream ==
    /\ fcall.fn = "handle_stream"
    /\ fret = NoRet
    /\ fret' = [fn |-> fcall.fn, val |-> handle_stream(fcall.args.lines)]
    /\ UNCHANGED fcall

\* ------------------------------------------------------- specifications

\* the variables of the components added after the scene generator
fnVars == <<fcall, fret>>
otherVars == <<fnVars, refVars, asmVars>>

AsmIdle == asm = NoAsm /\ book = NoBook
RefIdle == ref = NoRef /\ rch = NoRch /\ refines = 0 /\ batch = NoBatch
OthersIdle == fcall = NoCall /\ fret = NoRet /\ RefIdle /\ AsmIdle

\* the variables of the scene generator apart from the disk
sceneLocals == <<scene_max_retries, auto_summarize, scene_pc, scene_args, continuity,
                 prompt, gen_attempt, prose, scene_result, gen_entered, prose_calls,
                 attempts, backend_calls, runs>>

vars == <<llmVars, memVars, sceneVars, otherVars>>

\* a memory store nobody uses, beside the orchestrator
MemIdle ==
    /\ db_type = "chromadb"
    /\ retrieval_top_k = 1
    /\ now = 0
    /\ store = <<>>
    /\ last_add = NoAdd
    /\ query_args = NoQuery
    /\ query_result = <<>>
    /\ context = <<>>
    /\ mem_op = "idle"

\* an orchestrator nobody calls, beside the memory store
LLMIdle ==
    /\ models_cfg = [prose |-> [primary |-> "main", model |-> None, fallback |-> None,
                                alternatives |-> <<>>]]
    /\ max_retries = 1
    /\ llm_pc = "idle"
    /\ llm_key = None
    /\ chain_pos = 1
    /\ attempt = 0
    /\ llm_result = None
    /\ calls = <<>>
    /\ last_outcome = NoOutcome
    /\ slept = FALSE
    /\ first_ok = None
    /\ late_calls = 0

\* the orchestrator under every sequence of backend outcomes
Init == LLMInit /\ MemIdle /\ SceneIdle /\ OthersIdle

Next ==
    \/ LLMCall /\ UNCHANGED <<memVars, sceneVars, otherVars>>
    \/ TryGenerate /\ UNCHANGED <<memVars, sceneVars, otherVars>>
    \/ LLMReturn /\ UNCHANGED <<memVars, sceneVars, otherVars>>

Spec == Init /\ [][Next]_vars

\* the memory store under every sequence of operations and store outcomes
InitMem == MemInit /\ LLMIdle /\ SceneIdle /\ OthersIdle

NextMem ==
    \/ MemAdd /\ UNCHANGED <<llmVars, sceneVars, otherVars>>
    \/ MemQuery /\ UNCHANGED <<llmVars, sceneVars, otherVars>>
    \/ MemContext /\ UNCHANGED <<llmVars, sceneVars, otherVars>>
    \/ MemReturn /\ UNCHANGED <<llmVars, sceneVars, otherVars>>
    \/ Tick /\ UNCHANGED <<llmVars, sceneVars, otherVars>>

SpecMem == InitMem /\ [][NextMem]_vars

\* the scene generator over the orchestrator and the memory store
InitScene == SceneLLMInit /\ SceneMemInit /\ SceneInit /\ OthersIdle

NextScene ==
    \/ SceneGenerate /\ UNCHANGED <<llmVars, memVars, otherVars>>
    \/ SceneContext /\ UNCHANGED <<llmVars, otherVars>>
    \/ CallForProse /\ UNCHANGED <<memVars, otherVars>>
    \/ TryGenerate /\ UNCHANGED <<memVars, sceneVars, otherVars>>
    \/ Validate /\ UNCHANGED <<memVars, otherVars>>
    \/ CallForSummary /\ UNCHANGED <<memVars, otherVars>>
    \/ SceneSaveSummary /\ UNCHANGED otherVars
    \/ SceneReturn /\ UNCHANGED <<llmVars, memVars, otherVars>>

SpecScene == InitScene /\ [][NextScene]_vars

\* the functions of utils, each applied once to arguments drawn from bounded sets
InitFn ==
    /\ LLMIdle /\ MemIdle /\ SceneIdle
    /\ fcall \in {[fn |-> "validate_word_count", args |-> a] : a \in VwInputs}
                \cup {[fn |-> "discover_scenes", args |-> [scenes |-> S]] :
                         S \in SUBSET {2, 10, 99, 100}}
                \cup {[fn |-> "extract_scene_metadata", args |-> [outline |-> o]] :
                         o \in Outlines}
                \cup {[fn |-> "handle_stream", args |-> [lines |-> l]] : l \in Streams}
    /\ fret = NoRet
    /\ RefIdle
    /\ AsmIdle

NextFn ==
    \/ ValidateWordCount /\ UNCHANGED <<llmVars, memVars, sceneVars, refVars, asmVars>>
    \/ DiscoverScenes /\ UNCHANGED <<llmVars, memVars, sceneVars, refVars, asmVars>>
    \/ ExtractSceneMetadata /\ UNCHANGED <<llmVars, memVars, sceneVars, refVars, asmVars>>
    \/ HandleStream /\ UNCHANGED <<llmVars, memVars, sceneVars, refVars, asmVars>>

SpecFn == InitFn /\ [][NextFn]_vars

\* the refiner over the orchestrator and the raw artifacts on disk
InitRefine ==
    /\ LLMIdle /\ MemIdle /\ SceneLocalsIdle /\ RefIdle
    /\ files \in RawFiles
    /\ fcall = NoCall /\ fret = NoRet
    /\ AsmIdle

NextRefine ==
    \/ /\ \E scene \in 1..MaxScenes, passes \in PassLists :
              rch.pc = "idle" /\ Refine(scene, passes)
       /\ UNCHANGED <<llmVars, memVars, sceneLocals, fnVars, asmVars, rch, batch>>
    \/ RunPass /\ UNCHANGED <<memVars, sceneLocals, fnVars, asmVars, batch>>
    \/ TryGenerate /\ UNCHANGED <<memVars, sceneVars, otherVars>>
    \/ PassReturn /\ UNCHANGED <<memVars, sceneLocals, fnVars, asmVars, batch>>
    \/ RefineReturn /\ UNCHANGED <<llmVars, memVars, sceneLocals, fnVars, asmVars, batch>>
    \/ (\E num_scenes \in 0..MaxScenes : RefineChapter(num_scenes))
          /\ UNCHANGED <<llmVars, memVars, sceneLocals, fnVars, asmVars, batch>>
    \/ ChapterStep /\ UNCHANGED <<llmVars, memVars, sceneLocals, fnVars, asmVars, batch>>
    \/ ChapterReturn /\ UNCHANGED <<llmVars, memVars, sceneLocals, fnVars, asmVars, batch>>

SpecRefine == InitRefine /\ [][NextRefine]_vars

\* the generator and then one refine call on one disk: the refiner finds the raw
\* artifacts generate has saved, and no others
InitPipe == LLMIdle /\ MemIdle /\ SceneInit /\ OthersIdle

NextPipe ==
    \/ refines = 0 /\ SceneGenerate /\ UNCHANGED <<llmVars, memVars, otherVars>>
    \/ SceneContext /\ UNCHANGED <<llmVars, otherVars>>
    \/ CallForProse /\ UNCHANGED <<memVars, otherVars>>
    \/ TryGenerate /\ UNCHANGED <<memVars, sceneVars, otherVars>>
    \/ Validate /\ UNCHANGED <<memVars, otherVars>>
    \/ CallForSummary /\ UNCHANGED <<memVars, otherVars>>
    \/ SceneSaveSummary /\ UNCHANGED otherVars
    \/ SceneReturn /\ UNCHANGED <<llmVars, memVars, otherVars>>
    \/ /\ \E scene \in 1..MaxScenes, passes \in PassLists :
              scene_pc = "idle" /\ refines = 0 /\ Refine(scene, passes)
       /\ UNCHANGED <<llmVars, memVars, sceneLocals, fnVars, asmVars, rch, batch>>
    \/ RunPass /\ UNCHANGED <<memVars, sceneLocals, fnVars, asmVars, batch>>
    \/ PassReturn /\ UNCHANGED <<memVars, sceneLocals, fnVars, asmVars, batch>>
    \/ RefineReturn /\ UNCHANGED <<llmVars, memVars, sceneLocals, fnVars, asmVars, batch>>

SpecPipe == InitPipe /\ [][NextPipe]_vars

\* One generate and then one refine over the orchestrator's configurations: one
\* or two models in the chain, one or more attempts per model. Summaries are
\* off: the summary call belongs to neither loop.
InitBudget == SceneLLMInit /\ MemIdle /\ SceneInit /\ ~auto_summarize /\ OthersIdle

NextBudget ==
    \/ runs = 0 /\ refines = 0 /\ SceneGenerate /\ UNCHANGED <<llmVars, memVars, otherVars>>
    \/ SceneContext /\ UNCHANGED <<llmVars, otherVars>>
    \/ CallForProse /\ UNCHANGED <<memVars, otherVars>>
    \/ TryGenerate /\ UNCHANGED <<memVars, sceneVars, otherVars>>
    \/ Validate /\ UNCHANGED <<memVars, otherVars>>
    \/ SceneReturn /\ UNCHANGED <<llmVars, memVars, otherVars>>
    \/ /\ \E scene \in 1..MaxScenes, passes \in PassLists :
              scene_pc = "idle" /\ refines = 0 /\ Refine(scene, passes)
       /\ UNCHANGED <<llmVars, memVars, sceneLocals, fnVars, asmVars, rch, batch>>
    \/ RunPass /\ UNCHANGED <<memVars, sceneLocals, fnVars, asmVars, batch>>
    \/ PassReturn /\ UNCHANGED <<memVars, sceneLocals, fnVars, asmVars, batch>>
    \/ RefineReturn /\ UNCHANGED <<llmVars, memVars, sceneLocals, fnVars, asmVars, batch>>

SpecBudget == InitBudget /\ [][NextBudget]_vars

\* The batch operations on one disk, assemble_book and then refine_from_list.
\* The later chapters may hold a finalized scene, the first one holds none:
\* its scenes are those the list names, of which scene 1 has no raw artifact.
\* Smoothing is disabled.
InitBatch ==
    /\ LLMIdle /\ MemIdle /\ SceneLocalsIdle /\ RefIdle
    /\ fcall = NoCall /\ fret = NoRet
    /\ \E T \in SUBSET (2..MaxChapters) :
          files = [p \in {RawPath(sc) : sc \in 2..MaxScenes} |-> "T1"]
                  @@ [p \in {get_scene_path(BookName, c, 1, "FINAL", "final") : c \in T}
                        |-> <<"Text B">>]
    /\ asm = [NoAsm EXCEPT !.smoothing_enabled = FALSE]
    /\ book = NoBook

NextBatch ==
    \/ batch.pc = "idle" /\ AssembleBook(MaxChapters)
          /\ UNCHANGED <<llmVars, memVars, sceneLocals, fnVars, refVars>>
    \/ BookAssemble /\ UNCHANGED <<memVars, sceneLocals, fnVars, refVars>>
    \/ BookCollect /\ UNCHANGED <<llmVars, memVars, sceneLocals, fnVars, refVars>>
    \/ CreateManuscript /\ UNCHANGED <<llmVars, memVars, sceneLocals, fnVars, refVars>>
    \/ (\E scenes \in SceneLists : book.pc \in {"idle", "done"} /\ RefineFromList(scenes))
          /\ UNCHANGED <<llmVars, memVars, sceneLocals, fnVars, asmVars>>
    \/ BatchStep /\ UNCHANGED <<llmVars, memVars, sceneLocals, fnVars, asmVars>>
    \/ RunPass /\ UNCHANGED <<memVars, sceneLocals, fnVars, asmVars, batch>>
    \/ TryGenerate /\ UNCHANGED <<memVars, sceneVars, otherVars>>
    \/ PassReturn /\ UNCHANGED <<memVars, sceneLocals, fnVars, asmVars, batch>>
    \/ BatchCollect /\ UNCHANGED <<llmVars, memVars, sceneLocals, fnVars, asmVars>>

SpecBatch == InitBatch /\ [][NextBatch]_vars

\* the assembler over the orchestrator and the finalized scenes on disk: each of
\* scenes 1..MaxScenes of the first chapter has a FINAL artifact or none, each
\* later chapter has one scene or none; assemble is called on the first chapter,
\* and then assemble_book on the first chapters of the book
InitAsm ==
    /\ LLMIdle /\ MemIdle /\ SceneLocalsIdle /\ RefIdle
    /\ fcall = NoCall /\ fret = NoRet
    /\ \E S \in SUBSET (1..MaxScenes), T \in SUBSET (2..MaxChapters) :
          \E first \in [{FinalPath(sc) : sc \in S} -> SceneContents] :
              files = first @@ [p \in {get_scene_path(BookName, c, 1, "FINAL", "final") :
                                         c \in T} |-> <<"Text B">>]
    /\ \E enabled \in BOOLEAN : asm = [NoAsm EXCEPT !.smoothing_enabled = enabled]
    /\ book = NoBook

NextAsm ==
    \/ (\E smooth \in BOOLEAN : book.pc = "idle" /\ Assemble(Chapter, smooth))
          /\ UNCHANGED <<memVars, sceneLocals, fnVars, refVars, book>>
    \/ TryGenerate /\ UNCHANGED <<memVars, sceneVars, otherVars>>
    \/ SmoothReturn /\ UNCHANGED <<memVars, sceneLocals, fnVars, refVars, book>>
    \/ book.pc = "idle" /\ AsmReturn
          /\ UNCHANGED <<llmVars, memVars, sceneLocals, fnVars, refVars, book>>
    \/ (\E num_chapters \in 0..MaxChapters : AssembleBook(num_chapters))
          /\ UNCHANGED <<llmVars, memVars, sceneLocals, fnVars, refVars>>
    \/ BookAssemble /\ UNCHANGED <<memVars, sceneLocals, fnVars, refVars>>
    \/ BookCollect /\ UNCHANGED <<llmVars, memVars, sceneLocals, fnVars, refVars>>
    \/ CreateManuscript /\ UNCHANGED <<llmVars, memVars, sceneLocals, fnVars, refVars>>

SpecAsm == InitAsm /\ [][NextAsm]_vars

\* ================================================================ claims

\* ------------------------------------------------- orchestrator (C1 - C5)

RECURSIVE CountCalls(_, _)
\* how many of the backend calls in log were made at chain position p
CountCalls(log, p) ==
    IF log = <<>> THEN 0
    ELSE (IF log[Len(log)].pos = p THEN 1 ELSE 0) + CountCalls(SubSeq(log, 1, Len(log) - 1), p)

\* The rank the configuration gives a model: 0 for the primary (or 'model' when
\* no primary is set), 1 for the fallback, 1 + k for the k-th alternative.
Rank(model_cfg, m) ==
    IF m = model_cfg.primary \/ (model_cfg.primary = None /\ m = model_cfg.model) THEN 0
    ELSE IF m = model_cfg.fallback THEN 1
    ELSE 1 + (CHOOSE k \in 1..Len(model_cfg.alternatives) : model_cfg.alternatives[k] = m)

CurCfg == get_model_config(llm_key)

\* C1: the backend attempts of one generate_with_retry occur in chain order:
\* primary, then fallback, then the alternatives in list order; and when a model
\* is attempted, every model attempted before it has failed max_retries times.
C1_ChainOrder ==
    llm_key # None =>
        /\ \A i, j \in 1..Len(calls) :
              i < j => Rank(CurCfg, calls[i].model) <= Rank(CurCfg, calls[j].model)
        /\ \A j \in 1..Len(calls) :
              \A i \in 1..(j - 1) :
                 calls[i].model # calls[j].model =>
                    /\ calls[i].failed
                    /\ Cardinality({h \in 1..(j - 1) :
                                      calls[h].model = calls[i].model /\ calls[h].failed})
                          = max_retries
        /\ (calls # <<>> => Rank(CurCfg, calls[1].model) = 0)
        /\ \A j \in 1..Len(calls) :
              (Rank(CurCfg, calls[j].model) >= 2 /\ CurCfg.fallback # None) =>
                  \E i \in 1..(j - 1) : calls[i].model = CurCfg.fallback

\* C1's case: primary, fallback and two alternatives were all attempted
C1_Witness ==
    /\ Len(calls) >= 4
    /\ {calls[i].model : i \in 1..Len(calls)} = {"main", "backup", "alt1", "alt2"}
    /\ max_retries = 2

\* C2: generate_with_retry returns exactly the text of the first attempt whose
\* backend result is non-empty (a text the orchestrator counts as a success:
\* one with a non-whitespace character), and makes no backend call after it.
C2_FirstSuccessReturned ==
    first_ok # None =>
        /\ llm_pc \in {"returned", "idle"}
        /\ llm_result = first_ok
        /\ late_calls = 0
        /\ ~calls[Len(calls)].failed
        /\ \A i \in 1..(Len(calls) - 1) : calls[i].failed

\* C2's case: a chain [A, B, C] where every attempt on A and B failed and C
\* succeeded; the result is C's output
C2_Witness ==
    /\ llm_pc = "returned"
    /\ max_retries = 2
    /\ Len(calls) = 5
    /\ calls[5].pos = 3
    /\ last_outcome = [kind |-> "text", text |-> " T2 "]
    /\ llm_result = " T2 "

\* C3: at most max_retries attempts at each chain position, at most
\* max_retries x chain-length calls in all, and a position left behind (a later
\* one was attempted, or the call ended with no result) got exactly max_retries.
C3_AttemptBounds ==
    llm_key # None =>
        LET n == Len(Chain(CurCfg)) IN
        /\ Len(calls) <= max_retries * n
        /\ \A c \in 1..Len(calls) : calls[c].pos \in 1..n
        /\ \A p \in 1..n :
              /\ CountCalls(calls, p) <= max_retries
              /\ (\E c \in 1..Len(calls) : calls[c].pos > p) =>
                    CountCalls(calls, p) = max_retries
              /\ (llm_pc \in {"returned", "idle"} /\ first_ok = None) =>
                    CountCalls(calls, p) = max_retries

\* C3's case: a chain of four models all exhausted, two attempts each
C3_Witness ==
    /\ llm_pc = "returned"
    /\ max_retries = 2
    /\ Len(calls) = 8
    /\ llm_result = None

\* C4: when every attempt on every model fails (by an exception or an empty
\* response), generate_with_retry returns None and no exception leaves it.
C4_AllFailReturnsNone ==
    /\ llm_pc # "raised"
    /\ (llm_pc = "returned" /\ first_ok = None) => llm_result = None

\* C4's case: the last attempt of the last model raised and the call returned
C4_Witness ==
    /\ llm_pc = "returned"
    /\ llm_result = None
    /\ Len(calls) = max_retries * Len(Chain(CurCfg))
    /\ Len(calls) >= 2
    /\ last_outcome.kind = "raise"

\* C5: an empty or whitespace-only text is a failed attempt like an exception:
\* it uses up one of the model's attempts (control moves to the next attempt,
\* the next model, or the None return) and its text is never the result, which
\* is None or holds a non-whitespace character.
C5_BlankIsFailure ==
    /\ llm_result = None \/ Strip(llm_result) # ""
    /\ (calls # <<>> /\ last_outcome.kind = "text" /\ Strip(last_outcome.text) = "") =>
          LET c == calls[Len(calls)] IN
          /\ llm_result = None
          /\ llm_pc = "trying" =>
                \/ (chain_pos = c.pos /\ attempt = c.attempt + 1 /\ attempt < max_retries)
                \/ (chain_pos = c.pos + 1 /\ attempt = 0 /\ c.attempt = max_retries - 1)
          /\ llm_pc # "trying" =>
                (c.attempt = max_retries - 1 /\ c.pos = Len(Chain(CurCfg)))

\* C5's case: a whitespace-only answer used up the first attempt on a model
C5_Witness ==
    /\ llm_pc = "trying"
    /\ last_outcome = [kind |-> "text", text |-> "  "]
    /\ attempt = 1

\* ------------------------------------------------- memory store (C6 - C10)

\* the ids of the entries stored for a (text, entry_type) pair
EntriesFor(text, entry_type) ==
    {id \in DOMAIN store : store[id].text = text /\ store[id].etype = entry_type}

\* C6: add_entry called twice with identical text and entry_type, at any two
\* points in time, leaves one entry for the pair: the second call derives the id
\* of the first and replaces it.
C6_Idempotent ==
    /\ \A text \in MemTexts, entry_type \in EntryTypes :
          Cardinality(EntriesFor(text, entry_type)) <= 1
    /\ last_add.called =>
          \A id \in EntriesFor(last_add.text, last_add.etype) : id = last_add.id

\* C7: add_entry never returns normally while the entry is absent from the store
C7_FailureSurfaced ==
    (mem_op = "add" /\ ~last_add.raised) =>
        /\ last_add.id \in DOMAIN store
        /\ store[last_add.id].text = last_add.text

\* C8: with a non-empty entry_types list, query returns only entries whose
\* entry_type at insert time is in the list, whatever 'type' the caller's
\* metadata carried.
C8_QueryFilter ==
    (mem_op \in {"query", "context"} /\ query_args.entry_types # <<>>) =>
        \A i \in 1..Len(query_result) :
            /\ query_result[i].id \in DOMAIN store
            /\ store[query_result[i].id].etype \in Range(query_args.entry_types)

\* C8's case: a query for character entries returned one while the store also
\* holds an entry of another type
C8_Witness ==
    /\ mem_op = "query"
    /\ query_args.entry_types = <<"character">>
    /\ Len(query_result) >= 1
    /\ \E id \in DOMAIN store : store[id].etype = "story_bible"

\* C10: get_context_for_scene returns the empty string for zero hits; for n >= 1
\* hits it returns n blocks in result order, each "[TYPE]\n" + the first 500
\* characters of the hit's text + "\n", with the separator between blocks only.
C10_ContextFormat ==
    mem_op = "context" =>
        LET n == Len(query_result) IN
        /\ n = 0 => context = <<>>
        /\ n >= 1 =>
              /\ Len(context) = 5 * n + (n - 1)
              /\ \A k \in 1..n :
                    LET o == 6 * (k - 1)
                        hit == query_result[k]
                    IN  /\ context[o + 1] = "["
                        /\ context[o + 2] =
                              (CASE hit.metadata["type"] = "character" -> "CHARACTER"
                                 [] hit.metadata["type"] = "world" -> "WORLD"
                                 [] hit.metadata["type"] = "scene_summary" -> "SCENE_SUMMARY"
                                 [] hit.metadata["type"] = "continuity" -> "CONTINUITY"
                                 [] OTHER -> "?")
                        /\ context[o + 3] = "]\n"
                        /\ context[o + 4].of = hit.text
                        /\ context[o + 4].len <= 500
                        /\ context[o + 4].len = Min(StrLen(hit.text), 500)
                        /\ context[o + 5] = "\n"
                        /\ k < n => context[o + 6] = "\n---\n"

\* C10's case: two hits, one of them longer than 500 characters
C10_Witness ==
    /\ mem_op = "context"
    /\ Len(query_result) = 2
    /\ \E k \in 1..2 : StrLen(query_result[k].text) > 500
    /\ Len(context) = 11

\* C9: when the store raises during the query, query returns [] and raises
\* nothing, get_context_for_scene returns the empty string, and generate goes on
\* to the generation call (_generate_with_validation and its first
\* generate_with_retry) with a prompt that holds no retrieved context.
C9_QueryFailureTolerated ==
    /\ scene_pc # "raised"
    /\ (scene_args.outline_exists /\ scene_pc \notin {"idle", "context"}
           /\ query_args.backend = "raise") =>
          /\ ~query_args.raised
          /\ query_result = <<>>
          /\ context = <<>>
          /\ continuity = <<>>
          /\ gen_entered
          /\ prompt.built
          /\ prompt.retrieved_continuity = <<>>
          /\ scene_max_retries > 0 =>
                \/ (scene_pc = "generate" /\ gen_attempt = 0)
                \/ prose_calls >= 1

\* C9's case: the store holds an entry the query would have found, the query
\* raised, and the first generation call is under way
C9_Witness ==
    /\ scene_pc = "await_prose"
    /\ llm_pc = "trying"
    /\ query_args.backend = "raise"
    /\ store # <<>>
    /\ prose_calls = 1
    /\ prompt.retrieved_continuity = <<>>

\* ------------------------------------------- scene generator (C11 - C14)

\* the word count of text lies within [min_words, max_words]
InRange(text) == count_words(text) >= MinWords /\ count_words(text) <= MaxWords

\* attempt i of the generate in progress got text that fails validation
InvalidAt(i) == attempts[i] # None /\ ~InRange(attempts[i])

\* C11: _generate_with_validation makes at most scene.max_retries attempts;
\* prose that passes validation is returned at once, so it is the text of the
\* latest attempt and no earlier attempt passed; and an attempt before the last
\* one that fails validation is followed by another attempt.
C11_ValidationRetries ==
    /\ Len(attempts) <= scene_max_retries
    /\ prose_calls <= scene_max_retries
    /\ Len(attempts) <= prose_calls
    /\ prose_calls <= Len(attempts) + 1
    /\ (prose # None /\ InRange(prose)) =>
          /\ prose = attempts[Len(attempts)]
          /\ prose_calls = Len(attempts)
          /\ \A i \in 1..(Len(attempts) - 1) : attempts[i] = None \/ InvalidAt(i)
    /\ \A i \in 1..Len(attempts) :
          (InvalidAt(i) /\ i < scene_max_retries) =>
              \/ Len(attempts) > i
              \/ (scene_pc = "generate" /\ gen_attempt = i /\ prose = None)
              \/ (scene_pc = "await_prose" /\ prose_calls = i + 1 /\ prose = None)

\* C11's case: the first attempt failed validation, the second passed and was returned
C11_Witness ==
    /\ scene_pc = "done"
    /\ attempts = <<" T2 ", "T1">>
    /\ scene_result = "T1"
    /\ prose_calls = 2

\* C12: when the last of scene.max_retries attempts got text whose word count
\* is out of range and no attempt passed validation, that text is accepted:
\* generate goes on with it and returns it.
C12_LastAttemptAccepted ==
    (/\ scene_max_retries > 0
     /\ Len(attempts) = scene_max_retries
     /\ InvalidAt(Len(attempts))
     /\ \A i \in 1..Len(attempts) : attempts[i] = None \/ InvalidAt(i)) =>
        /\ prose = attempts[Len(attempts)]
        /\ scene_pc \in {"summarize", "await_summary", "done"}
        /\ scene_pc = "done" => scene_result = prose
        /\ scene_args.save =>
              LET raw == get_scene_path(BookName, scene_args.chapter, scene_args.scene,
                                        "v1", "raw")
              IN  raw \in DOMAIN files /\ files[raw] = prose

\* C12's case: two attempts, both too long; the second is what generate returned
C12_Witness ==
    /\ scene_pc = "done"
    /\ scene_max_retries = 2
    /\ attempts = <<" T2 ", " T2 ">>
    /\ scene_result = " T2 "
    /\ scene_args.save

\* C14: whenever generate returns prose while memory.auto_summarize_scenes is
\* on, whatever the save argument, it returns from the summary step, and a
\* summary obtained there was handed to add_entry as a scene_summary.
C14_SummaryOnAcceptance ==
    [][(scene_pc # "done" /\ scene_pc' = "done" /\ scene_result' # None /\ auto_summarize) =>
          /\ scene_pc = "await_summary"
          /\ Truthy(llm_result) =>
                /\ last_add'.called
                /\ last_add'.text = llm_result
                /\ last_add'.etype = "scene_summary"]_vars

\* C13: validate_word_count yields a result for every target, 0 included; it
\* reports valid exactly when min_words <= word_count <= max_words, whatever the
\* deviation from target; below min the message is 'Too short', above max 'Too long'.
C13_ValidateWordCount ==
    fret.fn = "validate_word_count" =>
        LET a == fcall.args
            r == fret.val
            wc == count_words(a.text)
        IN  /\ ~r.raised
            /\ r.word_count = wc
            /\ r.valid <=> (a.min_words <= wc /\ wc <= a.max_words)
            /\ wc < a.min_words => r.message = "Too short"
            /\ wc > a.max_words => r.message = "Too long"

\* ---------------------------------------------------- refiner (C15 - C19)

\* the stages of the artifacts the refine in progress has written, in order
WrittenStages == [i \in 1..Len(ref.written) |-> ref.written[i].stage]

\* every configured pass of the refine in progress has returned text
AllPassesReturned == ref.content # None /\ ref.failed_at = 0 /\ ref.calls = Len(ref.passes)

\* C15: a refine run writes under the 'final' stage only when every configured
\* pass has returned text, every run whose passes all returned text writes a
\* final-stage artifact, and a run in which a pass failed writes none.
C15_FinalOnlyOnSuccess ==
    /\ (\E i \in 1..Len(ref.written) : WrittenStages[i] = "final") =>
          (AllPassesReturned /\ ref.pc = "done" /\ ref.result)
    /\ (ref.pc = "done" /\ AllPassesReturned) =>
          (ref.result /\ FinalPath(ref.scene) \in Range(ref.written))
    /\ (ref.pc = "done" /\ ~ref.result) =>
          \A i \in 1..Len(ref.written) : WrittenStages[i] # "final"

\* C15's case: two passes of three returned text and were saved, the third failed
C15_Witness ==
    /\ ref.pc = "done"
    /\ ~ref.result
    /\ ref.passes = DefaultPasses
    /\ ref.failed_at = 3
    /\ Len(ref.written) = 2

\* C16: when a pass yields no text (the orchestrator returned none, or the pass
\* name is unknown) refine is over at that pass with False: nothing was written
\* and no orchestrator call was made after it.
C16_AbortOnFailure ==
    /\ ref.failed_at > 0 =>
          /\ ref.pc = "done"
          /\ ~ref.result
          /\ ref.pass_num = ref.failed_at
          /\ Len(ref.written) = ref.failed_at - 1
          /\ ref.calls <= ref.failed_at
          /\ ref.calls >= ref.failed_at - 1
          /\ llm_pc = "idle"
    /\ (ref.pc = "done" /\ ~ref.result /\ ref.content # None) => ref.failed_at > 0

\* C16's case: the second of three passes got no text; the third was never run
C16_Witness ==
    /\ ref.pc = "done"
    /\ ref.passes = DefaultPasses
    /\ ref.failed_at = 2
    /\ ref.calls = 2
    /\ Len(ref.written) = 1

\* C17: a refine run of n passes that all succeed persists exactly n artifacts;
\* for passes [cohesion, style] two, staged 'refined' and 'final'.
C17_OneArtifactPerPass ==
    (ref.pc = "done" /\ ref.result) =>
        /\ Len(ref.written) = Len(ref.passes)
        /\ ref.passes = <<"cohesion", "style">> => WrittenStages = <<"refined", "final">>

\* C18: an artifact on disk is never overwritten with other content, nor removed
C18_ArtifactsImmutable ==
    [][\A path \in DOMAIN files : path \in DOMAIN files' /\ files'[path] = files[path]]_vars

\* C19: refine_chapter calls refine for exactly the scenes of 1..num_scenes
\* whose raw artifact exists, in ascending order, and returns True if and only
\* if every one of those calls returned True.
C19_ChapterResult ==
    rch.pc = "done" =>
        /\ \A i, j \in 1..Len(rch.refined) :
              i < j => rch.refined[i].scene < rch.refined[j].scene
        /\ {rch.refined[i].scene : i \in 1..Len(rch.refined)} =
              {sc \in 1..rch.num_scenes : RawPath(sc) \in DOMAIN files}
        /\ rch.result <=> \A i \in 1..Len(rch.refined) : rch.refined[i].success

\* -------------------------------------------------------- assembler (C20)

RECURSIVE Joined(_)
\* the texts of a list with the scene separator between consecutive ones
Joined(texts) ==
    IF texts = <<>> THEN <<>>
    ELSE IF Len(texts) = 1 THEN texts[1]
    ELSE texts[1] \o <<"\n", "\n", "---", "\n", "\n">> \o Joined(Tail(texts))

\* the contents of the scenes the assemble in progress found, in order
FoundContents == [i \in 1..Len(asm.scene_paths) |-> files[asm.scene_paths[i]]]

\* a scene content without its leading metadata block
Body(content) ==
    IF content = <<"---", "\n", "title: C", "\n", "---", "\n", "Text C", "\n">>
    THEN <<"Text C">>
    ELSE IF content = <<"---", "\n", "title: D", "\n", "---", "\n">> THEN <<>>
    ELSE content

\* an assemble without smoothing has returned, having found scenes, none empty
AssembledRaw ==
    /\ asm.pc = "done"
    /\ ~(asm.smooth /\ asm.smoothing_enabled)
    /\ asm.scene_paths # <<>>
    /\ \A i \in 1..Len(asm.scene_paths) : FoundContents[i] # <<>>

\* what AssembledRaw requires of the raw chapter artifact, given the scene texts
RawChapterIs(texts) ==
    LET expected == <<"# Chapter " \o ToString(asm.chapter), "\n", "\n">> \o Joined(texts)
        raw_path == get_chapter_path(BookName, asm.chapter, "raw")
    IN  /\ raw_path \in DOMAIN files
        /\ files[raw_path] = expected
        /\ asm.result = [some |-> TRUE, text |-> expected]

\* C20, as stated: the raw chapter is the header followed by the scene contents
\* t1..tn themselves, the separator between consecutive ones, none after the last.
C20_AsStated == AssembledRaw => RawChapterIs(FoundContents)

\* C20, amended: the raw chapter is the header followed by the scene contents
\* without their leading metadata blocks, the separator between consecutive
\* ones and none after the last; for 'Text A' and 'Text B' of chapter 1 it is
\* '# Chapter 1', blank line, 'Text A', blank line, '---', blank line, 'Text B'.
C20_RawConcatenation ==
    AssembledRaw =>
        /\ RawChapterIs([i \in 1..Len(asm.scene_paths) |-> Body(FoundContents[i])])
        /\ FoundContents = << <<"Text A">>, <<"Text B">> >> =>
              files[get_chapter_path(BookName, 1, "raw")] =
                 <<"# Chapter 1", "\n", "\n", "Text A", "\n", "\n", "---", "\n", "\n", "Text B">>

\* C20's case: scenes 1 and 2 hold 'Text A' and 'Text B', smoothing is disabled
C20_Witness ==
    /\ AssembledRaw
    /\ ~asm.smoothing_enabled
    /\ asm.chapter = 1
    /\ FoundContents = << <<"Text A">>, <<"Text B">> >>

\* ------------------------------------------------- orchestrator (C29)

\* C29: after a failed attempt, whether the backend raised or returned an empty
\* or whitespace-only text, time.sleep(retry_delay) runs exactly when another
\* attempt on the same model follows; none runs after a model's last attempt.
C29_SleepBetweenAttempts ==
    (calls # <<>> /\ calls[Len(calls)].failed) =>
        (slept <=> /\ llm_pc = "trying"
                   /\ chain_pos = calls[Len(calls)].pos
                   /\ attempt = calls[Len(calls)].attempt + 1)

\* ------------------------------------------------- assembler (C21 - C25)

\* C21: _discover_scenes returns the finalized scenes of a chapter in ascending
\* order of their scene numbers, for every set of scene numbers
C21_DiscoverOrder ==
    fret.fn = "discover_scenes" =>
        /\ Len(fret.val) = Cardinality(fcall.args.scenes)
        /\ \A i, j \in 1..Len(fret.val) : i < j => fret.val[i].scene < fret.val[j].scene

\* the finalized scenes _discover_scenes finds for a chapter, with their contents
ScenesOf(fs, chapter) ==
    LET found == discover_scenes(fs, BookName, chapter)
    IN  [i \in 1..Len(found) |-> [path |-> found[i], content |-> fs[found[i]]]]

\* C22: no step of assemble or assemble_book, with or without smoothing, changes
\* what _discover_scenes finds for a chapter: the same artifacts, with the same
\* contents, in the same order
C22_ScenesUntouched ==
    [][\A c \in 1..MaxChapters : ScenesOf(files', c) = ScenesOf(files, c)]_vars

\* assemble has saved the raw and the smoothed chapter of two scenes
C22_Witness ==
    /\ asm.pc = "done"
    /\ Len(asm.written) = 2
    /\ Len(asm.scene_paths) = 2
    /\ discover_scenes(files, BookName, asm.chapter) = asm.scene_paths
    /\ get_chapter_path(BookName, asm.chapter, "v1") \in DOMAIN files

\* assemble is back from a smoothing call that yielded nothing
SmoothingFailed ==
    /\ asm.pc = "done"
    /\ asm.smooth
    /\ asm.smoothing_enabled
    /\ asm.scene_paths # <<>>
    /\ asm.smoothed = None

\* C23: when smoothing is asked for and enabled and the orchestrator returns
\* nothing, assemble returns the raw concatenation, and the raw chapter is the
\* only artifact the call has written
C23_SmoothingFallback ==
    SmoothingFailed =>
        LET raw == concatenate_scenes(files, asm.scene_paths, asm.chapter)
            raw_path == get_chapter_path(BookName, asm.chapter, "raw")
        IN  /\ asm.result = [some |-> TRUE, text |-> raw]
            /\ asm.written = <<raw_path>>
            /\ files[raw_path] = raw

C23_Witness ==
    /\ SmoothingFailed
    /\ Len(asm.scene_paths) = 2
    /\ book.pc = "loop"
    /\ asm.result.some

Contains(text, part) ==
    \E i \in 0..(Len(text) - Len(part)) : SubSeq(text, i + 1, i + Len(part)) = part

Manuscript == files[ManuscriptPath(BookName)]

\* C24: the manuscript of assemble_book contains every chapter assemble returned:
\* its smoothed artifact if there is one, else its raw artifact
C24_ManuscriptComplete ==
    book.pc = "done" =>
        \A c \in 1..book.num_chapters :
            book.results[c] =>
                LET smooth_path == get_chapter_path(BookName, c, "v1")
                    raw_path == get_chapter_path(BookName, c, "raw")
                IN  Contains(Manuscript, IF smooth_path \in DOMAIN files
                                         THEN files[smooth_path] ELSE files[raw_path])

\* C25: the chapters of the manuscript stand in ascending order, and every
\* '---' of the manuscript is followed by text
C25_ManuscriptWellFormed ==
    book.pc = "done" =>
        /\ \A c, d \in 1..book.num_chapters :
              (/\ c < d
               /\ get_chapter_path(BookName, c, "v1") \in DOMAIN files
               /\ get_chapter_path(BookName, d, "v1") \in DOMAIN files)
              => \E i, j \in 1..Len(Manuscript) :
                    /\ i < j
                    /\ Manuscript[i] = files[get_chapter_path(BookName, c, "v1")][1]
                    /\ Manuscript[j] = files[get_chapter_path(BookName, d, "v1")][1]
        /\ \A i \in 1..Len(Manuscript) :
              Manuscript[i] = "---" =>
                  \E j \in (i + 1)..Len(Manuscript) : Manuscript[j] \notin {"\n", "---"}

\* ------------------------------------------------- scene metadata (C26)

LabelAbsent(outline, labels) == \A i \in 1..Len(outline) : outline[i].label \notin labels

Malformed(value) == value \in {"", "about 1500"}

\* C26: _extract_scene_metadata raises nothing; a field none of whose labels
\* occurs in the outline has its default ('Unknown', 'Unknown', 'Untitled', the
\* configured target), and so has the target word count of an outline whose
\* 'Estimated Word Count:' values are all empty or malformed
C26_MetadataDefaults ==
    fret.fn = "extract_scene_metadata" =>
        LET outline == fcall.args.outline
            m == fret.val
        IN  /\ ~m.raised
            /\ LabelAbsent(outline, {"POV Character:"}) => m.pov_character = "Unknown"
            /\ LabelAbsent(outline, {"Location:", "Primary Location:"}) => m.location = "Unknown"
            /\ LabelAbsent(outline, {"Scene Title:"}) => m.scene_title = "Untitled"
            /\ (\A i \in 1..Len(outline) :
                    outline[i].label = "Estimated Word Count:" => Malformed(outline[i].value))
                => m.target_word_count = TargetWords

C26_Witness ==
    /\ fret.fn = "extract_scene_metadata"
    /\ Len(fcall.args.outline) = 2
    /\ \A i \in 1..2 : /\ fcall.args.outline[i].label = "Estimated Word Count:"
                       /\ Malformed(fcall.args.outline[i].value)
    /\ fcall.args.outline[1].value # fcall.args.outline[2].value
    /\ fret.val.target_word_count = TargetWords
    /\ fret.val.pov_character = "Unknown"

\* ------------------------------------------------- generate and refine (C28, C30)

\* C28: generate called with a missing outline returns None, and refine called
\* on a missing scene file returns False; neither queries or writes the memory
\* store, calls the orchestrator or writes a file, in the call or before its
\* caller goes on
C28_MissingInput ==
    [][/\ (scene_pc = "idle" /\ scene_pc' # "idle" /\ ~scene_args'.outline_exists)
            => /\ scene_pc' = "done"
               /\ scene_result' = None
               /\ UNCHANGED <<memVars, llmVars, files>>
       /\ (scene_pc = "done" /\ ~scene_args.outline_exists)
            => UNCHANGED <<memVars, llmVars, files>>
       /\ (ref.pc = "idle" /\ ref'.pc # "idle" /\ RawPath(ref'.scene) \notin DOMAIN files)
            => /\ ref'.pc = "done"
               /\ ~ref'.result
               /\ ref'.written = <<>>
               /\ ref'.calls = 0
               /\ UNCHANGED <<memVars, llmVars, files>>
       /\ (ref.pc = "done" /\ ref.content = None)
            => UNCHANGED <<memVars, llmVars, files>>]_vars

\* generate has ended on a missing outline, with no memory query made, and
\* refine then returns False for a scene with no file
C28_Witness ==
    /\ runs = 1
    /\ scene_pc = "idle"
    /\ mem_op = "idle"
    /\ ref.pc = "done"
    /\ ~ref.result
    /\ ref.content = None
    /\ files = <<>>
    /\ calls = <<>>

\* C30: generate queries the memory store once, after the outline check and
\* before any orchestrator call; every orchestrator call finds the query made
\* and the prompt built; the memory store is written only once prose has been
\* accepted, by the summary step
C30_GenerateOrder ==
    [][/\ (query_args' # query_args \/ (mem_op # "context" /\ mem_op' = "context"))
            => /\ scene_pc = "context"
               /\ ~gen_entered
               /\ calls = <<>>
               /\ prose_calls = 0
       /\ (scene_pc # "context" /\ scene_pc' = "context") => scene_pc = "idle"
       /\ (llm_pc = "idle" /\ llm_pc' # "idle")
            => /\ gen_entered
               /\ mem_op # "idle"
               /\ query_args # NoQuery
               /\ prompt.built
       /\ (store' # store \/ last_add' # last_add)
            => /\ scene_pc = "await_summary"
               /\ Truthy(prose)
               /\ prose \in Range(attempts)
               /\ prose_calls >= 1]_vars

\* the second draft was accepted and its summary written to the memory store
C30_Witness ==
    /\ scene_pc = "done"
    /\ last_add.called
    /\ query_args # NoQuery
    /\ prose_calls = 2
    /\ Truthy(scene_result)

\* ------------------------------------------------- batch operations (C27)

\* the scenes of the well-formed lines among the first n lines of a list
ListedScenes(scenes, n) ==
    LET ok == SelectSeq(SubSeq(scenes, 1, n), LAMBDA line : line.kind = "ok")
    IN  [i \in 1..Len(ok) |-> ok[i].scene]

\* the lines before the first one that has fewer than four fields
FirstBad(scenes) ==
    IF \E i \in 1..Len(scenes) : scenes[i].kind # "ok"
    THEN (CHOOSE i \in 1..Len(scenes) :
              /\ scenes[i].kind # "ok"
              /\ \A j \in 1..(i - 1) : scenes[j].kind = "ok") - 1
    ELSE Len(scenes)

BatchOver == batch.pc \in {"done", "raised"}

\* assemble_book has called assemble for every chapter 1..N, whatever earlier
\* calls returned, and the raw chapters of the assembled ones are on disk
BookComplete ==
    book.pc = "done" =>
        /\ book.result
        /\ Len(book.results) = book.num_chapters
        /\ \A c \in 1..book.num_chapters :
              book.results[c] => get_chapter_path(BookName, c, "raw") \in DOMAIN files

\* the FINAL artifacts of the scenes refine_from_list has refined are on disk
RefinedInPlace ==
    /\ Len(batch.results) = Len(batch.attempted)
    /\ \A k \in 1..Len(batch.results) :
          batch.results[k] => FinalPath(batch.attempted[k]) \in DOMAIN files

PassPath(scene, k, n, pass_type) ==
    [book |-> BookName, stage |-> IF k < n THEN "refined" ELSE "final",
     chapter |-> Chapter, scene |-> scene,
     version |-> "v" \o ToString(k + 1) \o "_" \o pass_type, ext |-> ".md"]

\* C31: pass k of n writes under stage 'refined' when k < n and 'final' when
\* k = n, with version v(k+1)_<pass name>, and the paths one refine run writes
\* are pairwise distinct, also when a pass name occurs twice
C31_DistinctPaths ==
    LET n == Len(ref.passes) IN
    /\ \A k \in 1..Len(ref.written) :
          ref.written[k] = IF k <= n THEN PassPath(ref.scene, k, n, ref.passes[k])
                           ELSE FinalPath(ref.scene)
    /\ \A i, j \in 1..Len(ref.written) : i # j => ref.written[i] # ref.written[j]

C31_Witness ==
    /\ ref.pc = "done"
    /\ ref.result
    /\ ref.passes = <<"style", "style", "polish">>
    /\ Len(ref.written) = 4
    /\ ref.written[1].version = "v2_style"
    /\ ref.written[2].version = "v3_style"

\* C37: pass 1 is given the raw scene text and pass k+1 the text pass k
\* returned; the FINAL artifact of a successful run is the text the last pass
\* returned, or the raw text, with no orchestrator call, when there is no pass
C37_PassesChained ==
    /\ \A k \in 1..Len(ref.inputs) :
          ref.inputs[k] = IF k = 1 THEN ref.content ELSE ref.returned[k - 1]
    /\ (ref.pc = "done" /\ ref.result) =>
          /\ Len(ref.returned) = Len(ref.passes)
          /\ files[FinalPath(ref.scene)] =
                IF ref.passes = <<>> THEN ref.content ELSE ref.returned[Len(ref.passes)]
          /\ ref.passes = <<>> => ref.calls = 0 /\ ref.backend = 0

\* three passes have succeeded, the second on another text than the scene as loaded
C37_Witness ==
    /\ ref.pc = "done"
    /\ ref.result
    /\ Len(ref.inputs) = 3
    /\ ref.inputs[2] # ref.content
    /\ ref.inputs[3] # ref.inputs[2]
    /\ files[FinalPath(ref.scene)] = ref.returned[3]

\* ------------------------------------------------- unknown role keys (C32)

ProseChain == Chain(models_cfg["prose"])

\* C32: a generate_with_retry call whose key is not configured runs as a call
\* with key 'prose' does: every backend call goes to the model of the prose
\* chain at its position, the call never raises, it returns the first
\* successful text, and returns None only with the whole prose chain exhausted
C32_UnknownKeyIsProse ==
    (llm_key # None /\ llm_key \notin DOMAIN models_cfg) =>
        /\ llm_pc # "raised"
        /\ \A i \in 1..Len(calls) :
              /\ calls[i].pos \in 1..Len(ProseChain)
              /\ calls[i].model = ProseChain[calls[i].pos]
        /\ (calls # <<>> => calls[1].pos = 1)
        /\ \A i \in 1..(Len(calls) - 1) :
              calls[i + 1].pos = IF calls[i].attempt + 1 < max_retries
                                 THEN calls[i].pos ELSE calls[i].pos + 1
        /\ llm_pc = "returned" =>
              IF first_ok # None THEN llm_result = first_ok
              ELSE /\ llm_result = None
                   /\ Len(calls) = max_retries * Len(ProseChain)

\* the smoothing key 'review' with a refinement role configured: the call went
\* to the prose primary and then got its result from the prose fallback
C32_Witness ==
    /\ llm_key = "review"
    /\ "refinement" \in DOMAIN models_cfg
    /\ llm_pc = "returned"
    /\ llm_result # None
    /\ Len(calls) >= 2
    /\ calls[1].model = "main"
    /\ calls[Len(calls)].model = "backup"

\* ------------------------------------------------- raw chapter kept (C33)

\* C33: while the smoothing call runs the raw chapter is on disk already; when
\* assemble returns a chapter, the raw artifact holds the concatenation that
\* call computed, whatever smoothing did, and a smoothing that succeeded has
\* written the smoothed artifact only, under another path
C33_RawRetained ==
    LET raw_path == get_chapter_path(BookName, asm.chapter, "raw")
        smooth_path == get_chapter_path(BookName, asm.chapter, "v1")
    IN  /\ asm.pc = "await" =>
              /\ asm.written = <<raw_path>>
              /\ raw_path \in DOMAIN files
              /\ files[raw_path] = asm.chapter_content
        /\ (asm.pc = "done" /\ asm.result.some) =>
              /\ raw_path \in DOMAIN files
              /\ files[raw_path] = asm.chapter_content
              /\ files[raw_path] = concatenate_scenes(files, asm.scene_paths, asm.chapter)
              /\ IF Truthy(asm.smoothed)
                 THEN /\ asm.written = <<raw_path, smooth_path>>
                      /\ smooth_path # raw_path
                      /\ files[smooth_path] = <<asm.smoothed>>
                 ELSE asm.written = <<raw_path>>

\* smoothing of a chapter of two scenes has succeeded
C33_Witness ==
    /\ asm.pc = "done"
    /\ Truthy(asm.smoothed)
    /\ Len(asm.scene_paths) = 2
    /\ asm.result.text = <<asm.smoothed>>
    /\ files[get_chapter_path(BookName, asm.chapter, "raw")] = asm.chapter_content

\* ------------------------------------------------- streaming (C34)

\* the lines up to and including the first object that carries done = true
UpToDone(lines) ==
    IF \E i \in 1..Len(lines) : lines[i].kind = "obj" /\ lines[i].done
    THEN SubSeq(lines, 1, CHOOSE i \in 1..Len(lines) :
                              /\ lines[i].kind = "obj" /\ lines[i].done
                              /\ \A j \in 1..(i - 1) : ~(lines[j].kind = "obj" /\ lines[j].done))
    ELSE lines

RECURSIVE Responses(_)
\* the 'response' texts of the objects among the lines, joined in order
Responses(lines) ==
    IF lines = <<>> THEN ""
    ELSE (IF Head(lines).kind = "obj" /\ Head(lines).response # None
          THEN Head(lines).response ELSE "") \o Responses(Tail(lines))

C35_ContextTypesOnly ==
    mem_op = "context" =>
        /\ query_args.entry_types = <<"character", "world", "scene_summary", "continuity">>
        /\ \A i \in 1..Len(query_result) :
              /\ query_result[i].id \in DOMAIN store
              /\ store[query_result[i].id].etype
                    \in {"character", "world", "scene_summary", "continuity"}
              /\ query_result[i].metadata["type"] = store[query_result[i].id].etype
        /\ context = FormatContext(query_result)
        /\ \A i \in 1..Len(query_result) :
              ContextPart(query_result[i])[2] \notin {"STORY_BIBLE", "MAGIC_SYSTEM", "UNKNOWN"}

\* the store holds a magic_system entry beside one of a context type: the
\* context has one hit although top_k allows two
C35_Witness ==
    /\ mem_op = "context"
    /\ retrieval_top_k = 2
    /\ Cardinality(DOMAIN store) = 2
    /\ \E id \in DOMAIN store : store[id].etype = "magic_system"
    /\ Len(query_result) = 1
    /\ context # <<>>

\* C36: _generate_with_validation returns None only if every one of its
\* attempts got no text from the orchestrator: when generate ends with
\* "Generation failed" after entering the loop, no attempt had obtained prose.
C36_NoDraftLost ==
    (scene_pc = "done" /\ gen_entered /\ scene_result = None) =>
        \A i \in 1..Len(attempts) : ~Truthy(attempts[i])

\* C38: a summarize call that returns no text does not fail generate: the
\* step that ends the summary stage without a summary returns the accepted
\* prose, leaves the raw artifact on disk with that prose, adds no entry to the
\* memory store and writes no file.
C38_SummaryFailureTolerated ==
    [][(scene_pc = "await_summary" /\ scene_pc' = "done" /\ ~Truthy(llm_result)) =>
          LET raw == get_scene_path(BookName, scene_args.chapter, scene_args.scene,
                                    "v1", "raw")
          IN  /\ Truthy(prose)
              /\ scene_result' = prose
              /\ raw \in DOMAIN files' /\ files'[raw] = prose
              /\ files' = files
              /\ store' = store
              /\ last_add' = last_add]_vars

\* C38's case: the first generate, with saving and auto-summarization on, has
\* returned its prose; the summary stage ran and left neither a summary file
\* nor a scene_summary entry
C38_Witness ==
    /\ scene_pc = "done"
    /\ runs = 1
    /\ scene_args.save /\ auto_summarize
    /\ scene_result = "T1"
    /\ get_scene_path(BookName, scene_args.chapter, scene_args.scene, "v1", "raw") \in DOMAIN files
    /\ summary_path(BookName, scene_args.chapter, scene_args.scene) \notin DOMAIN files
    /\ \A id \in DOMAIN store : store[id].etype # "scene_summary"

\* the number of models generate_with_retry goes through for a role key
ChainLength(key) == Len(Chain(get_model_config(key)))

\* the backend calls of the generate_with_retry call in progress, when it is
\* one made by the loop in question
InFlight(waiting) == IF waiting THEN Len(calls) ELSE 0

\* the backend calls one _generate_with_validation and one refine may make,
\* and the ranges of their loops
WithinBudget ==
    /\ backend_calls + InFlight(scene_pc = "await_prose")
          <= scene_max_retries * max_retries * ChainLength("prose")
    /\ prose_calls <= scene_max_retries /\ Len(attempts) <= prose_calls
    /\ scene_pc \in {"generate", "await_prose"} => gen_attempt < scene_max_retries
    /\ ref.backend + InFlight(ref.pc = "await")
          <= Len(ref.passes) * max_retries * ChainLength("refinement")
    /\ ref.calls <= Len(ref.passes) /\ ref.pass_num <= Len(ref.passes)

\* what the generator's loop has done so far: backend calls, orchestrator
\* calls, and attempts finished
GenProgress ==
    backend_calls + InFlight(scene_pc = "await_prose") + prose_calls + Len(attempts)

\* the same for the refiner's loop
RefProgress ==
    ref.backend + InFlight(ref.pc = "await") + ref.calls + ref.pass_num
        + (IF ref.pc = "done" THEN 1 ELSE 0)

\* C39: the attempts of one _generate_with_validation make at most
\* scene.max_retries * advanced.max_retries * chain-length backend calls, and
\* the passes of one refine at most len(passes) * advanced.max_retries *
\* chain-length, whatever the backend does; and each loop terminates: every
\* step taken while it runs, a backend call returning or raising included,
\* adds to a count that these bounds limit.
C39_BackendCallBudget ==
    /\ []WithinBudget
    /\ [][/\ scene_pc \in {"generate", "await_prose"} => GenProgress' > GenProgress
          /\ ref.pc \in {"loop", "await"} => RefProgress' > RefProgress]_vars

\* C39's case: two attempts, two models and two tries per model; generate used
\* all eight backend calls, and a refine of three passes all twelve
C39_Witness ==
    /\ scene_max_retries = 2 /\ max_retries = 2 /\ ChainLength("prose") = 2
    /\ scene_pc = "idle" /\ runs = 1
    /\ backend_calls = 8
    /\ ref.pc = "done"
    /\ Len(ref.passes) = 3
    /\ ref.backend = 12

\* C40: the result of a batch does not depend on what its items returned:
\* assemble_book ends with True and with the manuscript file written after any
\* combination of assemble results, and refine_from_list, once its loop is
\* through the list, returns True after any combination of refine results; the
\* only other way it ends is on a line it cannot unpack, never on an item's
\* result.
C40_ResultIndependent ==
    /\ book.pc = "done" =>
          /\ book.result
          /\ ManuscriptPath(BookName) \in DOMAIN files
          /\ Len(book.results) = book.num_chapters
    /\ batch.pc = "done" =>
          /\ batch.result
          /\ batch.pos = Len(batch.scenes) + 1
          /\ Len(batch.results) = Len(batch.scenes)
    /\ batch.pc = "raised" =>
          /\ batch.pos \in 1..Len(batch.scenes)
          /\ batch.scenes[batch.pos].kind # "ok"

\* C40's case: every chapter failed to assemble and every listed scene failed
\* to refine; both batches returned True and the manuscript is on disk
C40_Witness ==
    /\ book.pc = "done" /\ book.result
    /\ book.num_chapters = MaxChapters
    /\ \A c \in 1..Len(book.results) : ~book.results[c]
    /\ ManuscriptPath(BookName) \in DOMAIN files
    /\ batch.pc = "done" /\ batch.result
    /\ Len(batch.results) = 2
    /\ \A k \in 1..Len(batch.results) : ~batch.results[k]

====
